---- MODULE Spec2Model ----
(***************************************************************************)
(* Model of the shared layers of the services and of the user update:      *)
(*   shared/utils/jwt.go             JWTManager (issue, validate, refresh)  *)
(*   shared/middleware/middleware.go the gin stages (CORS, RateLimiter,     *)
(*                                   JWTAuth, Recovery, SecurityHeaders)    *)
(*   shared/database/postgres.go     PostgresDB.Transaction                 *)
(*   unnamed/part_001                RedisClient (cache, IncrementCounter)  *)
(*   unnamed/part_000                user management: PUT /users/:id        *)
(* Time is counted in ticks; one second is TicksPerSec ticks.  A call      *)
(* reads the clock once: the reads inside one call are closer together     *)
(* than one tick.                                                          *)
(***************************************************************************)
EXTENDS Integers, Sequences, FiniteSets, TLC

VARIABLES
    now,          \* the wall clock, in ticks
    parserOrder,  \* the order of checks of the jwt/v4 release the build resolved
    held,         \* the token a client holds, as GenerateToken / RefreshToken returned it
    last,         \* the TokenService call that has just returned: its input and result
    lim,          \* the rate.Limiter of one RateLimiter stage: limit, burst, tokens, last
    mu,           \* lim.mu: 0 when free, else the request that holds it
    reqs,         \* per request goroutine: its position inside limiter.Allow() and its locals
    log,          \* the Allow() calls that returned, in the order they held lim.mu
    chain,        \* the handlers of the router, in router.Use order, the route's handler last
    ctx,          \* c, the gin.Context of the request being served
    store,        \* the Redis keyspace behind RedisClient
    rcall,        \* the RedisClient call in progress or just returned
    pipes,        \* per caller of IncrementCounter: its Pipeline, from the queued commands to the return
    counts,       \* the IncrementCounter calls that returned, in the order they returned
    db,           \* the users table behind UserRepository: id -> row
    upd,          \* the PUT /users/:id being handled or just answered
    tx,           \* the PostgresDB.Transaction call in progress: its locals, its result and what it did
    conn          \* the database behind db.Connection: the committed statements, the open transactions

tokenVars == <<parserOrder, held, last>>
limiterVars == <<lim, mu, reqs, log>>
pipeVars == <<chain, ctx>>
cacheVars == <<store, rcall>>
counterVars == <<pipes, counts>>
repoVars == <<db, upd>>
txVars == <<tx, conn>>
vars == <<now, parserOrder, held, last, lim, mu, reqs, log, chain, ctx, store, rcall, pipes, counts, db, upd, tx, conn>>

----------------------------------------------------------------------------
(* Bounds of the model *)

TicksPerSec == 2      \* clock resolution
MaxSec == 2           \* the clock runs from 0 to MaxSec seconds
MaxRefreshes == 2     \* refreshes counted per token
SigBytes == 2         \* width of the MAC; 2 = 32 mod 3, so the base64 tail is that of HS256
MaxRate == 2          \* requestsPerSecond ranges over 1..MaxRate
MaxBurst == 2         \* burstSize ranges over 1..MaxBurst
NumReqs == 2          \* request goroutines that can be inside the stage at once
MaxCount == 2         \* a counter key is incremented up to MaxCount
NumCallers == 2       \* goroutines that call IncrementCounter on one key
MaxSteps == 2         \* statements and faults of the function a transaction runs
MaxTx == 2            \* Transaction calls made on one connection

\* Allow() calls made on a limiter of burst b: a burst, one refused, one refilled, one refused
MaxCalls(b) == b + 3

\* the limiter is watched for a second and a tick
LimiterHorizon == TicksPerSec + 1

MaxTime == MaxSec * TicksPerSec

RECURSIVE Pow(_, _)
Pow(b, n) == IF n = 0 THEN 1 ELSE b * Pow(b, n - 1)

Idx(seq, s) == (CHOOSE i \in DOMAIN seq : seq[i] = s) - 1

----------------------------------------------------------------------------
(* Inputs *)

UserIDs == <<"u1", "u2">>
Usernames == <<"ann", "bob">>
Emails == <<"ann@example.com", "bob@example.com">>
Roles == <<"admin", "user">>

\* the callers of GenerateToken: (userID, username, email, role)
Users ==
    { [id |-> "u1", username |-> "ann", email |-> "ann@example.com", role |-> "admin"],
      [id |-> "u2", username |-> "bob", email |-> "bob@example.com", role |-> "user"] }

\* expiration arguments: -1 second, one tick, 1 second
TTLs == {0 - TicksPerSec, 0, 1, TicksPerSec}

\* JWTManager.secretKey / issuer, and a key the manager does not hold
secretKey == "secret"
issuer == "auth-service"
Keys == <<"secret", "attacker">>

\* alg values of a header segment; BadSegment is a segment that does not decode
Headers == <<"HS256", "RS256", "XX">>
BadSegment == "%%"
HMACAlgs == {"HS256"}
RegisteredAlgs == {"HS256", "RS256"}

\* whole seconds a NumericDate of the model can hold
SecLo == 0 - 1
SecHi == MaxSec + 2
SecSpan == SecHi - SecLo + 1

----------------------------------------------------------------------------
(* Claims, and their JSON form in the payload segment *)

\* jwt.NewNumericDate: the instant truncated to jwt.TimePrecision (one second)
NewNumericDate_noTruncate(t) == t
NewNumericDate(t) == t - (t % TicksPerSec)

\* the zero JWTClaims (a nil *JWTClaims carries nothing)
NoClaims ==
    [UserID |-> "", Username |-> "", Email |-> "", Role |-> "",
     ExpiresAt |-> 0, IssuedAt |-> 0, NotBefore |-> 0, Issuer |-> "", Subject |-> ""]

\* json.Marshal of JWTClaims: NumericDate is written as a number of seconds, UserID
\* as a JSON string (idType is the JSON type of the value of "user_id")
MarshalClaims(c) ==
    [json |-> TRUE, idType |-> "string",
     user_id |-> c.UserID, username |-> c.Username, email |-> c.Email, role |-> c.Role,
     exp |-> c.ExpiresAt \div TicksPerSec, iat |-> c.IssuedAt \div TicksPerSec,
     nbf |-> c.NotBefore \div TicksPerSec, iss |-> c.Issuer, sub |-> c.Subject]

\* json.Unmarshal into JWTClaims: seconds become instants
UnmarshalClaims(p) ==
    [UserID |-> p.user_id, Username |-> p.username, Email |-> p.email, Role |-> p.role,
     ExpiresAt |-> p.exp * TicksPerSec, IssuedAt |-> p.iat * TicksPerSec,
     NotBefore |-> p.nbf * TicksPerSec, Issuer |-> p.iss, Subject |-> p.sub]

BadPayload ==
    [json |-> FALSE, idType |-> "string", user_id |-> "", username |-> "", email |-> "", role |-> "",
     exp |-> 0, iat |-> 0, nbf |-> 0, iss |-> "", sub |-> ""]

----------------------------------------------------------------------------
(* The signature: HMAC over header + "." + payload, base64url without padding *)

SigBits == 8 * SigBytes
SigChars == (SigBits + 5) \div 6

\* the signing input as a number: one code per (header, payload)
PayloadCode(p) ==
    (IF p.idType = "string" THEN 0
     ELSE Len(UserIDs) * Len(Usernames) * Len(Emails) * Len(Roles) * Len(UserIDs)
              * SecSpan * SecSpan * SecSpan) +
    (((((((IF p.idType = "string" THEN Idx(UserIDs, p.user_id) ELSE 0)
            * Len(Usernames) + Idx(Usernames, p.username))
            * Len(Emails) + Idx(Emails, p.email))
            * Len(Roles) + Idx(Roles, p.role))
            * Len(UserIDs) + Idx(UserIDs, p.sub))
            * SecSpan + (p.exp - SecLo))
            * SecSpan + (p.iat - SecLo))
            * SecSpan + (p.nbf - SecLo)

\* hmac.New(sha256, key).Sum: a keyed MAC, distinct for distinct (key, input)
HMAC(key, header, p) ==
    (Idx(Keys, key) + Len(Keys) * (Idx(Headers, header) + Len(Headers) * PayloadCode(p)))
        % Pow(2, SigBits)

\* base64.RawURLEncoding.EncodeToString: 6 bits per character, the tail padded with zero bits
EncodeSegment(v) ==
    LET padded == v * Pow(2, 6 * SigChars - SigBits)
    IN  [i \in 1..SigChars |-> (padded \div Pow(64, SigChars - i)) % 64]

RECURSIVE SextetsValue(_)
SextetsValue(s) ==
    IF s = <<>> THEN 0 ELSE 64 * SextetsValue(SubSeq(s, 1, Len(s) - 1)) + s[Len(s)]

\* base64.RawURLEncoding.DecodeString (not Strict): the bits left over after the
\* last whole byte are dropped without being looked at
DecodeSegment(s) ==
    LET nbytes == (6 * Len(s)) \div 8
        slack == 6 * Len(s) - 8 * nbytes
    IN  [ok |-> Len(s) % 4 # 1, n |-> nbytes, v |-> SextetsValue(s) \div Pow(2, slack)]

\* SigningMethodHMAC.Verify: decode the segment, then hmac.Equal
Verify(header, p, sig, key) ==
    LET d == DecodeSegment(sig)
    IN  d.ok /\ d.n = SigBytes /\ d.v = HMAC(key, header, p)

----------------------------------------------------------------------------
(* Token strings: header "." payload "." signature *)

Token(h, p, s) == [parts |-> 3, header |-> h, payload |-> p, sig |-> s]
\* "" and strings without exactly two dots
EmptyToken == [parts |-> 1, header |-> "", payload |-> BadPayload, sig |-> <<>>]
TwoPartToken == [parts |-> 2, header |-> "HS256", payload |-> BadPayload, sig |-> <<>>]

\* one bit of the signature segment flipped
FlipBit(t, k) ==
    LET c == ((k - 1) \div 6) + 1
        w == Pow(2, 5 - ((k - 1) % 6))
        old == t.sig[c]
        new == IF (old \div w) % 2 = 1 THEN old - w ELSE old + w
    IN  [t EXCEPT !.sig = [t.sig EXCEPT ![c] = new]]

----------------------------------------------------------------------------
(* github.com/golang-jwt/jwt/v4, as jwt.go calls it *)

\* Token.SignedString with jwt.SigningMethodHS256
SignedString(c, key) ==
    Token("HS256", MarshalClaims(c), EncodeSegment(HMAC(key, "HS256", MarshalClaims(c))))

\* Parser.ParseUnverified: split, decode header and claims, look the method up
\* Parser.ParseUnverified into jwt.MapClaims: every JSON object decodes
ParseUnverifiedMap(t) ==
    IF t.parts # 3 THEN {"Malformed"}
    ELSE IF t.header = BadSegment THEN {"Malformed"}
    ELSE IF ~t.payload.json THEN {"Malformed"}
    ELSE IF t.header \notin RegisteredAlgs THEN {"Unverifiable"}
    ELSE {}

\* Parser.ParseUnverified into &JWTClaims{}: UserID is a string field, and a number
\* for "user_id" does not decode
ParseUnverified(t) ==
    IF t.parts # 3 THEN {"Malformed"}
    ELSE IF t.header = BadSegment THEN {"Malformed"}
    ELSE IF ~t.payload.json \/ t.payload.idType # "string" THEN {"Malformed"}
    ELSE IF t.header \notin RegisteredAlgs THEN {"Unverifiable"}
    ELSE {}

\* the Keyfunc of ValidateToken: only HMAC methods get the key
Keyfunc(t) == t.header \in HMACAlgs

\* verifyExp / verifyIat / verifyNbf
verifyExp_never(exp, t) == TRUE
verifyExp(exp, t) == t < exp
verifyIat(iat, t) == t >= iat
verifyNbf(nbf, t) == t >= nbf

\* RegisteredClaims.Valid at instant t
ClaimsValid(c, t) ==
    (IF verifyExp(c.ExpiresAt, t) THEN {} ELSE {"Expired"})
    \cup (IF verifyIat(c.IssuedAt, t) THEN {} ELSE {"IssuedAt"})
    \cup (IF verifyNbf(c.NotBefore, t) THEN {} ELSE {"NotValidYet"})

\* Parser.ParseWithClaims.  Releases up to v4.5.0 validate the claims and then verify
\* the signature, joining the errors; later releases verify first and return at once.
ParseInto(t, key, at, order, decodeErr) ==
    LET c == UnmarshalClaims(t.payload)
        cErr == ClaimsValid(c, at)
        sErr == IF Verify(t.header, t.payload, t.sig, key) THEN {} ELSE {"SignatureInvalid"}
    IN  IF decodeErr # {}
        THEN [Valid |-> FALSE, Errors |-> decodeErr, Claims |-> NoClaims,
              steps |-> <<"decode">>]
        ELSE IF ~Keyfunc(t)
        THEN [Valid |-> FALSE, Errors |-> {"Unverifiable"}, Claims |-> c,
              steps |-> <<"decode", "keyfunc">>]
        ELSE IF order = "claims_first"
        THEN [Valid |-> (cErr \cup sErr) = {}, Errors |-> cErr \cup sErr, Claims |-> c,
              steps |-> <<"decode", "keyfunc", "claims", "verify">>]
        ELSE IF sErr # {}
        THEN [Valid |-> FALSE, Errors |-> sErr, Claims |-> c,
              steps |-> <<"decode", "keyfunc", "verify">>]
        ELSE [Valid |-> cErr = {}, Errors |-> cErr, Claims |-> c,
              steps |-> <<"decode", "keyfunc", "verify", "claims">>]

\* jwt.ParseWithClaims(tokenString, &JWTClaims{}, keyFunc)
ParseWithClaims(t, key, at, order) == ParseInto(t, key, at, order, ParseUnverified(t))

----------------------------------------------------------------------------
(* Errors: a chain of messages around the jwt.ValidationError flags *)

NoError == [chain |-> <<>>, flags |-> {}]
\* fmt.Errorf(msg + ": %w", err)
Wrap_dropCause(msg, err) == [chain |-> <<msg>>, flags |-> {}]
Wrap(msg, err) == [chain |-> <<msg>> \o err.chain, flags |-> err.flags]

----------------------------------------------------------------------------
(* JWTManager *)

\* the claims GenerateToken builds at instant `at`
BuildClaims(userID, username, email, role, expiration, at) ==
    [UserID |-> userID, Username |-> username, Email |-> email, Role |-> role,
     ExpiresAt |-> NewNumericDate(at + expiration),
     IssuedAt |-> NewNumericDate(at),
     NotBefore |-> NewNumericDate(at),
     Issuer |-> issuer, Subject |-> userID]

GenerateToken(userID, username, email, role, expiration, at) ==
    SignedString(BuildClaims(userID, username, email, role, expiration, at), secretKey)

ValidateToken(t, at) ==
    LET r == ParseWithClaims(t, secretKey, at, parserOrder)
    IN  IF r.Errors # {}
        THEN [ok |-> FALSE, claims |-> NoClaims,
              err |-> Wrap("failed to parse token", [chain |-> <<>>, flags |-> r.Errors]),
              steps |-> r.steps]
        ELSE IF ~r.Valid
        THEN [ok |-> FALSE, claims |-> NoClaims,
              err |-> [chain |-> <<"token is invalid">>, flags |-> {}], steps |-> r.steps]
        ELSE [ok |-> TRUE, claims |-> r.Claims, err |-> NoError, steps |-> r.steps]

RefreshToken_keepsOldExpiry(t, newExpiration, at) ==
    LET v == ValidateToken(t, at)
    IN  IF ~v.ok
        THEN [ok |-> FALSE, token |-> EmptyToken,
              err |-> Wrap("invalid token for refresh", v.err)]
        ELSE [ok |-> TRUE,
              token |-> GenerateToken(v.claims.UserID, v.claims.Username, v.claims.Email,
                                      v.claims.Role, v.claims.ExpiresAt - at, at),
              err |-> NoError]
RefreshToken(t, newExpiration, at) ==
    LET v == ValidateToken(t, at)
    IN  IF ~v.ok
        THEN [ok |-> FALSE, token |-> EmptyToken,
              err |-> Wrap("invalid token for refresh", v.err)]
        ELSE [ok |-> TRUE,
              token |-> GenerateToken(v.claims.UserID, v.claims.Username, v.claims.Email,
                                      v.claims.Role, newExpiration, at),
              err |-> NoError]

IsTokenExpired_errNotExpired(t, at) ==
    LET v == ValidateToken(t, at)
    IN  IF ~v.ok THEN FALSE ELSE v.claims.ExpiresAt < at
IsTokenExpired(t, at) ==
    LET v == ValidateToken(t, at)
    IN  IF ~v.ok THEN TRUE ELSE v.claims.ExpiresAt < at

----------------------------------------------------------------------------
(* The token strings a caller may present *)

\* a token signed by somebody without the secret, or edited after issue
Resigned(t) == [t EXCEPT !.sig = EncodeSegment(HMAC("attacker", t.header, t.payload))]
Extended(t) == [t EXCEPT !.payload.exp = SecHi]
WithHeader(t, h) == [t EXCEPT !.header = h]
WithBadPayload(t) == [t EXCEPT !.payload = BadPayload]

\* a token signed with the key whose "user_id" is the number 7
WithNumericID(t, key) ==
    LET p == [t.payload EXCEPT !.idType = "number", !.user_id = "7"]
    IN  [t EXCEPT !.payload = p, !.sig = EncodeSegment(HMAC(key, t.header, p))]

Presented(t) ==
    {[kind |-> "issued", tok |-> t, bit |-> 0]}
    \cup {[kind |-> "bitflip", tok |-> FlipBit(t, k), bit |-> k] : k \in 1..(6 * SigChars)}
    \cup {[kind |-> "forged", tok |-> Resigned(t), bit |-> 0],
          [kind |-> "forged", tok |-> Extended(t), bit |-> 0],
          [kind |-> "forged", tok |-> WithHeader(t, "RS256"), bit |-> 0],
          [kind |-> "forged", tok |-> WithHeader(t, "XX"), bit |-> 0],
          [kind |-> "malformed", tok |-> WithHeader(t, BadSegment), bit |-> 0],
          [kind |-> "malformed", tok |-> WithBadPayload(t), bit |-> 0]}

Inputs ==
    (IF held.some THEN Presented(held.tok) ELSE {})
    \cup {[kind |-> "malformed", tok |-> EmptyToken, bit |-> 0],
          [kind |-> "malformed", tok |-> TwoPartToken, bit |-> 0]}

\* what RefreshToken and IsTokenExpired are called with
UnflippedInputs == {in \in Inputs : in.kind # "bitflip"}

----------------------------------------------------------------------------
(* golang.org/x/time/rate, as RateLimiter uses it.  Token counts are kept in  *)
(* units of 1/TicksPerSec of a token, so that limit * elapsed is exact.       *)

Rates == 1..MaxRate
Bursts == 1..MaxBurst
Reqs == 1..NumReqs

\* one token, the n of AllowN(now, 1)
OneToken == TicksPerSec

\* the zero time.Time a new Limiter has in lim.last: further back than any bucket
\* takes to fill
ZeroTime == 0 - MaxBurst * TicksPerSec

\* rate.NewLimiter(rate.Limit(requestsPerSecond), burstSize)
NewLimiter(requestsPerSecond, burstSize) ==
    [limit |-> requestsPerSecond, burst |-> burstSize, tokens |-> 0, last |-> ZeroTime]

tokensFromDuration_perTick(limit, d) == d * limit * TicksPerSec

\* Limit.tokensFromDuration: d.Seconds() * limit
tokensFromDuration(limit, d) == d * limit

advance_noCap(l, t) ==
    LET lst == IF t < l.last THEN t ELSE l.last
    IN  l.tokens + tokensFromDuration(l.limit, t - lst)

\* Limiter.advance: the tokens available at t, given lim.last and lim.tokens
advance(l, t) ==
    LET lst == IF t < l.last THEN t ELSE l.last
        elapsed == t - lst
        tokens == l.tokens + tokensFromDuration(l.limit, elapsed)
        burst == l.burst * TicksPerSec
    IN  IF tokens > burst THEN burst ELSE tokens

\* reserveN that, when it refuses, restarts the refill from the time of the call
reserveN_restartOnRefusal(l, t, tokens) ==
    LET rest == tokens - OneToken
        ok == 1 <= l.burst /\ rest >= 0
    IN  [ok |-> ok,
         lim |-> IF ok THEN [l EXCEPT !.last = t, !.tokens = rest] ELSE [l EXCEPT !.last = t]]

\* Limiter.reserveN(t, 1, 0) once advance returned `tokens`: the decision and the
\* state it leaves; a refused call writes nothing
reserveN(l, t, tokens) ==
    LET rest == tokens - OneToken
        ok == 1 <= l.burst /\ rest >= 0
    IN  [ok |-> ok,
         lim |-> IF ok THEN [l EXCEPT !.last = t, !.tokens = rest] ELSE l]

----------------------------------------------------------------------------
(* gin: a request runs the handlers of the chain through c.Next() / c.Abort() *)

\* gin's abortIndex: c.Abort() sets c.index to it, which ends every Next() loop
abortIndex == 63

\* the stages of middleware.go, gin's own Recovery and Logger, and the route's handler
Stages ==
    {"Recovery", "ginRecovery", "Logger", "CORS", "RateLimiter", "JWTAuth", "RequestID",
     "Timeout", "HealthCheck", "SecurityHeaders", "RequestSize", "handler"}

\* the canonical order with the shared stages, and the order main() installs
SharedChain ==
    <<"Recovery", "SecurityHeaders", "CORS", "RequestID", "Timeout", "HealthCheck",
      "RequestSize", "RateLimiter", "JWTAuth", "handler">>
MainChain == <<"ginRecovery", "Logger", "handler">>
Chains == {SharedChain, MainChain}

\* RequestSize(maxSize) and Timeout(timeout) as installed
maxSize == 1
timeout == TicksPerSec

\* what c.Get("user_id"), c.Get("username"), c.Get("email") find
NoKeys == [set |-> FALSE, idType |-> "string", user_id |-> "", username |-> "", email |-> ""]

\* the Authorization header: absent, or a scheme prefix followed by a token
NoAuth == [present |-> FALSE, scheme |-> "", tok |-> EmptyToken]
AuthHeader(scheme, tok) == [present |-> TRUE, scheme |-> scheme, tok |-> tok]

NoRequest ==
    [method |-> "", path |-> "", auth |-> NoAuth, size |-> 0, fault |-> "none"]

NoContext ==
    [active |-> FALSE, req |-> NoRequest, index |-> 0, keys |-> NoKeys, writes |-> <<>>,
     hdrs |-> {}, ran |-> <<>>, guarded |-> FALSE, caught |-> 0, escaped |-> FALSE,
     faulted |-> FALSE, deadline |-> 0 - 1, at |-> 0, lim0 |-> NewLimiter(1, 1)]

\* c.Next() at the end of a handler: the chain goes on with the next handler
CNext(x, stage) == [x EXCEPT !.index = @ + 1, !.ran = Append(@, stage)]

\* c.Abort(): no further handler runs
CAbort(x, stage) == [x EXCEPT !.index = abortIndex, !.ran = Append(@, stage)]

\* c.JSON(status, body) / c.AbortWithStatus(status): one response written
CWrite(x, status, body) == [x EXCEPT !.writes = Append(@, [status |-> status, body |-> body])]

\* c.Header(name, ...)
CHeader(x, names) == [x EXCEPT !.hdrs = @ \cup names]

CORSHeaders ==
    {"Access-Control-Allow-Origin", "Access-Control-Allow-Methods",
     "Access-Control-Allow-Headers", "Access-Control-Expose-Headers",
     "Access-Control-Allow-Credentials"}

\* CORS that answers every method as it answers OPTIONS
CORS_abortAll(x) == CAbort(CWrite(CHeader(x, CORSHeaders), 204, ""), "CORS")

\* the handler CORS() returns
CORS(x) ==
    LET y == CHeader(x, CORSHeaders)
    IN  IF x.req.method = "OPTIONS"
        THEN CAbort(CWrite(y, 204, ""), "CORS")
        ELSE CNext(y, "CORS")

RateLimiter_noAbort(x, l, t) ==
    LET r == reserveN(l, t, advance(l, t))
    IN  [c |-> IF r.ok THEN CNext(x, "RateLimiter")
               ELSE CNext(CWrite(x, 429, "Rate limit exceeded"), "RateLimiter"),
         lim |-> r.lim]

\* the handler RateLimiter returns, run at time t on the limiter l of its closure
RateLimiter(x, l, t) ==
    LET r == reserveN(l, t, advance(l, t))
    IN  [c |-> IF r.ok THEN CNext(x, "RateLimiter")
               ELSE CAbort(CWrite(x, 429, "Rate limit exceeded"), "RateLimiter"),
         lim |-> r.lim]

\* jwt.Parse: ParseWithClaims into MapClaims, whose Valid() compares whole seconds
Parse(t, key, at, order) ==
    ParseInto(t, key, at - (at % TicksPerSec), order, ParseUnverifiedMap(t))

\* strings.TrimPrefix(authHeader, "Bearer ") changed the header
HasBearerPrefix(h) == h.scheme = "Bearer "

JWTAuth_anyScheme(x, key, t, order) ==
    LET h == x.req.auth
        p == Parse(h.tok, key, t, order)
    IN  IF ~h.present
        THEN CAbort(CWrite(x, 401, "Authorization header required"), "JWTAuth")
        ELSE IF ~p.Valid
        THEN CAbort(CWrite(x, 401, "Invalid token"), "JWTAuth")
        ELSE CNext([x EXCEPT !.keys = [set |-> TRUE, idType |-> h.tok.payload.idType,
                                       user_id |-> h.tok.payload.user_id,
                                       username |-> h.tok.payload.username,
                                       email |-> h.tok.payload.email]], "JWTAuth")

\* the handler JWTAuth(secretKey) returns
JWTAuth(x, key, t, order) ==
    LET h == x.req.auth
        p == Parse(h.tok, key, t, order)
    IN  IF ~h.present
        THEN CAbort(CWrite(x, 401, "Authorization header required"), "JWTAuth")
        ELSE IF ~HasBearerPrefix(h)
        THEN CAbort(CWrite(x, 401, "Invalid authorization format"), "JWTAuth")
        ELSE IF ~p.Valid
        THEN CAbort(CWrite(x, 401, "Invalid token"), "JWTAuth")
        ELSE CNext([x EXCEPT !.keys = [set |-> TRUE, idType |-> h.tok.payload.idType,
                                       user_id |-> h.tok.payload.user_id,
                                       username |-> h.tok.payload.username,
                                       email |-> h.tok.payload.email]], "JWTAuth")

RequestID(x) == CNext(CHeader(x, {"X-Request-ID"}), "RequestID")

\* context.WithTimeout(c.Request.Context(), timeout), then c.Next()
Timeout(x, t) == CNext([x EXCEPT !.deadline = t + timeout], "Timeout")

HealthCheck_noAbort(x) ==
    IF x.req.path = "/health"
    THEN CNext(CWrite(x, 200, "healthy"), "HealthCheck")
    ELSE CNext(x, "HealthCheck")

HealthCheck(x) ==
    IF x.req.path = "/health"
    THEN CAbort(CWrite(x, 200, "healthy"), "HealthCheck")
    ELSE CNext(x, "HealthCheck")

SecurityHeadersSet ==
    {"X-Content-Type-Options", "X-Frame-Options", "X-XSS-Protection",
     "Strict-Transport-Security", "Content-Security-Policy"}

SecurityHeaders(x) == CNext(CHeader(x, SecurityHeadersSet), "SecurityHeaders")

RequestSize(x) ==
    IF x.req.size > maxSize
    THEN CAbort(CWrite(x, 413, "Request too large"), "RequestSize")
    ELSE CNext(x, "RequestSize")

\* gin.Logger(): c.Next(), then the log line
Logger(x) == CNext(x, "Logger")

\* gin.CustomRecovery / gin.Recovery: the deferred recover() is armed, then c.Next()
ArmRecovery(x, stage) == CNext([x EXCEPT !.guarded = TRUE], stage)

\* the function Recovery(logger) hands to gin.CustomRecovery: log, c.JSON(500, ...);
\* it returns into the Next() loop of the caller, which goes on after the handler
\* that panicked
Recovery(x) ==
    [CWrite(x, 500, "Internal server error") EXCEPT !.index = @ + 1]

\* gin's defaultHandleRecovery: c.AbortWithStatus(500)
ginRecovery(x) == [CWrite(x, 500, "") EXCEPT !.index = abortIndex]

\* the position of the innermost recovery stage below position i, 0 if there is none
RecoveryBelow(ch, i) ==
    LET ps == {j \in 1..(i - 1) : ch[j] \in {"Recovery", "ginRecovery"}}
    IN  IF ps = {} THEN 0 ELSE CHOOSE j \in ps : \A k \in ps : k <= j

\* the route's handler answers the request
handler(x) == CNext(CWrite(x, 200, "ok"), "handler")

GetUserFromContext(x) ==
    IF x.keys.set /\ x.keys.idType = "string"
    THEN [userID |-> x.keys.user_id, username |-> x.keys.username,
          email |-> x.keys.email, exists |-> TRUE]
    ELSE [userID |-> "", username |-> "", email |-> "", exists |-> FALSE]

----------------------------------------------------------------------------
(* go-redis behind RedisClient *)

\* the seconds of context.WithTimeout(context.Background(), 5*time.Second)
RedisTimeout == 5

CacheKeys == {"k"}
CounterKeys == {"ctr"}
StoreKeys == CacheKeys \cup CounterKeys

\* a key of the store: the text SET wrote or the integer INCR keeps, and the instant the
\* key expires (NoExpiry: never)
NoExpiry == 0 - 1
NoEntry == [present |-> FALSE, data |-> "", n |-> 0, expireAt |-> NoExpiry]
EmptyStore == [key \in StoreKeys |-> NoEntry]

\* the key exists at time t
Live(e, t) == e.present /\ (e.expireAt = NoExpiry \/ t < e.expireAt)

\* values a callback returns (interface{}): two strings, a number, a struct, and a value
\* json.Marshal refuses; json is the JSON text of the value
NoValue == [type |-> "nil", v |-> "", json |-> "null"]
Values ==
    { [type |-> "string", v |-> "hello", json |-> "\"hello\""],
      [type |-> "string", v |-> "123", json |-> "\"123\""],
      [type |-> "number", v |-> "123", json |-> "123"],
      [type |-> "object", v |-> "id=1", json |-> "{\"id\":1}"],
      [type |-> "chan", v |-> "", json |-> ""] }

\* json.Marshal(value)
Marshal(value) ==
    IF value.type = "chan" THEN [ok |-> FALSE, data |-> ""]
    ELSE [ok |-> TRUE, data |-> value.json]

\* json.Unmarshal([]byte(data), &dest) with dest an interface{}: the value whose JSON
\* text is data; a struct comes back as a map, an integer as a float64
Unmarshal(data) ==
    LET vs == {v \in Values : v.type # "chan" /\ v.json = data}
    IN  IF vs = {} THEN [ok |-> FALSE, value |-> NoValue]
        ELSE [ok |-> TRUE, value |-> CHOOSE v \in vs : TRUE]

\* SetWithExpiration, the switch on the type of value: a string is stored as it is
Encode(value) ==
    IF value.type = "string" THEN [ok |-> TRUE, data |-> value.v] ELSE Marshal(value)

\* r.Client.Set(ctx, key, data, expiration); expiration 0 keeps the key for ever
RedisSet(st, key, data, expiration, t) ==
    [st EXCEPT ![key] = [present |-> TRUE, data |-> data, n |-> 0,
                         expireAt |-> IF expiration = 0 THEN NoExpiry ELSE t + expiration]]

\* RedisClient.SetWithExpiration; up: the store answers
SetWithExpiration(st, key, value, expiration, up, t) ==
    LET e == Encode(value)
    IN  IF ~e.ok THEN [ok |-> FALSE, err |-> "failed to marshal value", store |-> st]
        ELSE IF ~up THEN [ok |-> FALSE, err |-> "failed to set value", store |-> st]
        ELSE [ok |-> TRUE, err |-> "", store |-> RedisSet(st, key, e.data, expiration, t)]

\* RedisClient.Get
Get(st, key, up, t) ==
    IF ~up THEN [ok |-> FALSE, err |-> "failed to get value", value |-> ""]
    ELSE IF ~Live(st[key], t) THEN [ok |-> FALSE, err |-> "key not found", value |-> ""]
    ELSE [ok |-> TRUE, err |-> "", value |-> st[key].data]

\* RedisClient.GetAndUnmarshal
GetAndUnmarshal(st, key, up, t) ==
    LET g == Get(st, key, up, t)
        u == Unmarshal(g.value)
    IN  IF ~g.ok THEN [ok |-> FALSE, err |-> g.err, value |-> NoValue]
        ELSE IF ~u.ok THEN [ok |-> FALSE, err |-> "failed to unmarshal JSON", value |-> NoValue]
        ELSE [ok |-> TRUE, err |-> "", value |-> u.value]

\* outcomes of callback()
Callbacks ==
    {[ok |-> TRUE, value |-> v, err |-> ""] : v \in Values}
    \cup {[ok |-> FALSE, value |-> NoValue, err |-> "callback failed"]}

CacheWithCallback_storeOnError(st, key, expiration, cb, getUp, setUp, t) ==
    LET g == GetAndUnmarshal(st, key, getUp, t)
        w == SetWithExpiration(st, key, cb.value, expiration, setUp, t)
    IN  IF g.ok
        THEN [ok |-> TRUE, value |-> g.value, err |-> "", calls |-> 0, store |-> st]
        ELSE [ok |-> cb.ok, value |-> cb.value, err |-> cb.err, calls |-> 1,
              store |-> w.store]

CacheWithCallback_failOnSetError(st, key, expiration, cb, getUp, setUp, t) ==
    LET g == GetAndUnmarshal(st, key, getUp, t)
        w == SetWithExpiration(st, key, cb.value, expiration, setUp, t)
    IN  IF g.ok
        THEN [ok |-> TRUE, value |-> g.value, err |-> "", calls |-> 0, store |-> st]
        ELSE IF ~cb.ok
        THEN [ok |-> FALSE, value |-> NoValue, err |-> cb.err, calls |-> 1, store |-> st]
        ELSE [ok |-> w.ok, value |-> IF w.ok THEN cb.value ELSE NoValue, err |-> w.err,
              calls |-> 1, store |-> w.store]

\* RedisClient.CacheWithCallback; cb is what callback() returns if it is called, calls
\* the number of times it was called
CacheWithCallback(st, key, expiration, cb, getUp, setUp, t) ==
    LET g == GetAndUnmarshal(st, key, getUp, t)
        w == SetWithExpiration(st, key, cb.value, expiration, setUp, t)
    IN  IF g.ok
        THEN [ok |-> TRUE, value |-> g.value, err |-> "", calls |-> 0, store |-> st]
        ELSE IF ~cb.ok
        THEN [ok |-> FALSE, value |-> NoValue, err |-> cb.err, calls |-> 1, store |-> st]
        ELSE [ok |-> TRUE, value |-> cb.value, err |-> "", calls |-> 1, store |-> w.store]

\* INCR that forgets the count it finds
RedisIncr_restart(st, key, t) ==
    [st EXCEPT ![key] = [present |-> TRUE, data |-> "", n |-> 1, expireAt |-> NoExpiry]]

\* INCR key: a key that is absent or expired starts from 0 and has no expiry
RedisIncr(st, key, t) ==
    IF Live(st[key], t) THEN [st EXCEPT ![key].n = @ + 1]
    ELSE [st EXCEPT ![key] = [present |-> TRUE, data |-> "", n |-> 1, expireAt |-> NoExpiry]]

\* EXPIRE key expiration
RedisExpire(st, key, expiration, t) ==
    IF Live(st[key], t) THEN [st EXCEPT ![key].expireAt = t + expiration] ELSE st

\* no RedisClient call in progress
NoRedisCall ==
    [op |-> "none", pc |-> "none", key |-> "", expiration |-> 0, cb |-> [ok |-> FALSE,
     value |-> NoValue, err |-> ""], getUp |-> FALSE, setUp |-> FALSE, at |-> 0,
     before |-> EmptyStore, ok |-> FALSE, value |-> NoValue, err |-> "", calls |-> 0,
     n |-> 0, ctxDeadline |-> 0, reqDeadline |-> 0, cancelAt |-> 0 - 1]


----------------------------------------------------------------------------
(* user-management: PUT /users/:id, from the JSON body to the UPDATE statement.  *)
(* A value of the body is its JSON text; an argument of a statement or a cell of  *)
(* a row is a value, the instant time.Now() returned, or an id.                    *)

\* a field the body does not carry
Absent == "<absent>"

\* the fields a body may carry, and the values tried for each: the four fields of
\* UpdateUserRequest, and three no field of it is tagged with
BodyFields == {"username", "email", "full_name", "is_active", "role", "id", "updated_at"}
\* (a body carries at most one of the three)
Bodies ==
    {b \in [username : {Absent, "al", "bob", "carol"},
            email : {Absent, "carol@example.com"},
            full_name : {Absent, "", "Ann"},
            is_active : {Absent, "false"},
            role : {Absent, "admin"},
            id : {Absent, "7"},
            updated_at : {Absent, "1999"}] :
        Cardinality({f \in {"role", "id", "updated_at"} : b[f] # Absent}) <= 1}

\* the json tags of UpdateUserRequest
RequestFields == {"username", "email", "full_name", "is_active"}

\* len(s) of the strings above
Length(s) ==
    CASE s = "" -> 0
      [] s = "al" -> 2
      [] s \in {"bob", "Ann", "ann"} -> 3
      [] s = "carol" -> 5
      [] OTHER -> 17

Str(s) == [kind |-> "value", s |-> s, i |-> 0]
Instant(t) == [kind |-> "now", s |-> "", i |-> t]
Id(n) == [kind |-> "id", s |-> "", i |-> n]

\* the columns of users that the statements of the service name
Columns == {"id", "username", "email", "full_name", "is_active", "updated_at"}

NoRow == [f \in Columns |-> Str(Absent)]
Row(id, username, email, fullName, isActive, updatedAt) ==
    [f \in Columns |->
        CASE f = "id"         -> Id(id)
          [] f = "username"   -> Str(username)
          [] f = "email"      -> Str(email)
          [] f = "full_name"  -> Str(fullName)
          [] f = "is_active"  -> Str(isActive)
          [] f = "updated_at" -> Instant(updatedAt)]

\* two users exist, the third id has no row; the requests name the first and the third
UserIds == {1, 2, 3}
Targets == {1, 3}
InitTable ==
    [id \in UserIds |->
        CASE id = 1 -> Row(1, "ann", "ann@example.com", "Ann A", "true", 0)
          [] id = 2 -> Row(2, "bob", "bob@example.com", "Bob B", "true", 0)
          [] OTHER -> NoRow]
Exists(tbl, id) == id \in UserIds /\ tbl[id] # NoRow

\* c.ShouldBindJSON(&req): encoding/json fills the tagged fields and skips every other
\* key of the body; then the binding tags are validated (omitempty: only when set)
NoUpdateUserRequest == [Username |-> "", Email |-> "", FullName |-> "", IsActive |-> "nil"]
Decode(body) ==
    [Username |-> IF body["username"] = Absent THEN "" ELSE body["username"],
     Email |-> IF body["email"] = Absent THEN "" ELSE body["email"],
     FullName |-> IF body["full_name"] = Absent THEN "" ELSE body["full_name"],
     IsActive |-> IF body["is_active"] = Absent THEN "nil" ELSE body["is_active"]]
ShouldBindJSON(body) ==
    LET req == Decode(body)
        valid == /\ req.Username # "" => Length(req.Username) >= 3 /\ Length(req.Username) <= 50
                 /\ req.FullName # "" => Length(req.FullName) >= 2 /\ Length(req.FullName) <= 100
    IN  IF valid THEN [ok |-> TRUE, req |-> req]
        ELSE [ok |-> FALSE, req |-> NoUpdateUserRequest]

\* SELECT COUNT(*) FROM users WHERE <column> = $1 AND id != $2
CheckExists(tbl, column, value, excludeID) ==
    \E id \in UserIds : Exists(tbl, id) /\ id # excludeID /\ tbl[id][column] = Str(value)

\* a statement: the SET parts in the order they were appended, each a column and the
\* number of its placeholder; the number of the placeholder of WHERE id; the arguments
NoStatement == [set |-> <<>>, where |-> 0, args |-> <<>>]

\* the orders in which range may walk a map with these keys
RECURSIVE Orders(_)
Orders(keys) ==
    IF keys = {} THEN {<<>>}
    ELSE UNION {{<<f>> \o o : o \in Orders(keys \ {f})} : f \in keys}

\* the text of the query: joinStrings(setParts, ", ") inside the UPDATE template
joinStrings(strings, separator) ==
    LET RECURSIVE join(_)
        join(i) == IF i > Len(strings) THEN <<>>
                   ELSE (IF i = 1 THEN <<>> ELSE <<separator>>) \o strings[i] \o join(i + 1)
    IN  join(1)
Placeholder(i) == [kind |-> "placeholder", w |-> "$", n |-> i]
Word(w) == [kind |-> "word", w |-> w, n |-> 0]
Text(q) ==
    <<Word("UPDATE users SET")>>
    \o joinStrings([i \in DOMAIN q.set |->
                      <<Word(q.set[i].column), Word("="), Placeholder(q.set[i].index)>>],
                   Word(","))
    \o <<Word("WHERE id ="), Placeholder(q.where)>>

\* ur.db.Exec(query, args...): the row with the id gets, part by part, the argument of
\* the placeholder; a column the table does not have fails the statement
Exec(tbl, q) ==
    LET id == q.args[q.where].i
        RECURSIVE assign(_, _)
        assign(row, i) ==
            IF i > Len(q.set) THEN row
            ELSE assign([row EXCEPT ![q.set[i].column] = q.args[q.set[i].index]], i + 1)
    IN  IF \E i \in DOMAIN q.set : q.set[i].column \notin Columns
        THEN [err |-> "failed to update user", rowsAffected |-> 0, table |-> tbl]
        ELSE IF ~Exists(tbl, id)
        THEN [err |-> "", rowsAffected |-> 0, table |-> tbl]
        ELSE [err |-> "", rowsAffected |-> 1, table |-> [tbl EXCEPT ![id] = assign(@, 1)]]

\* what the call answers: its error, the statement it built and whether it was sent
Answer(err, q, sent, tbl) == [err |-> err, query |-> q, sent |-> sent, table |-> tbl]

\* UserRepository.UpdateUser without the check for an empty map
UserRepository_UpdateUser_noEmptyCheck(tbl, id, updates, order, at) ==
    LET n == Len(order)
        q == [set |-> [i \in 1 .. n + 1 |->
                          IF i <= n THEN [column |-> order[i], index |-> i]
                          ELSE [column |-> "updated_at", index |-> n + 1]],
              where |-> n + 2,
              args |-> [i \in 1 .. n + 2 |->
                          IF i <= n THEN updates[order[i]]
                          ELSE IF i = n + 1 THEN Instant(at) ELSE Id(id)]]
        r == Exec(tbl, q)
    IN  IF r.err # "" THEN Answer("failed to update user", q, TRUE, r.table)
        ELSE IF r.rowsAffected = 0 THEN Answer("user not found", q, TRUE, r.table)
        ELSE Answer("", q, TRUE, r.table)

\* UserRepository.UpdateUser that leaves updated_at to the caller
UserRepository_UpdateUser_noTimestamp(tbl, id, updates, order, at) ==
    LET n == Len(order)
        q == [set |-> [i \in 1 .. n |-> [column |-> order[i], index |-> i]],
              where |-> n + 1,
              args |-> [i \in 1 .. n + 1 |-> IF i <= n THEN updates[order[i]] ELSE Id(id)]]
        r == Exec(tbl, q)
    IN  IF n = 0 THEN Answer("no fields to update", NoStatement, FALSE, tbl)
        ELSE IF r.rowsAffected = 0 THEN Answer("user not found", q, TRUE, r.table)
        ELSE Answer("", q, TRUE, r.table)

\* UserRepository.UpdateUser that does not count the placeholder of updated_at
UserRepository_UpdateUser_sharedIndex(tbl, id, updates, order, at) ==
    LET n == Len(order)
        q == [set |-> [i \in 1 .. n + 1 |->
                          IF i <= n THEN [column |-> order[i], index |-> i]
                          ELSE [column |-> "updated_at", index |-> n + 1]],
              where |-> n + 1,
              args |-> [i \in 1 .. n + 2 |->
                          IF i <= n THEN updates[order[i]]
                          ELSE IF i = n + 1 THEN Instant(at) ELSE Id(id)]]
    IN  IF n = 0 THEN Answer("no fields to update", NoStatement, FALSE, tbl)
        ELSE Answer("failed to update user", q, TRUE, tbl)

\* UserRepository.UpdateUser(id, updates); order is the order in which range walks the
\* map, at what time.Now() returns
UserRepository_UpdateUser(tbl, id, updates, order, at) ==
    IF Len(order) = 0
    THEN Answer("no fields to update", NoStatement, FALSE, tbl)
    ELSE LET n == Len(order)
             setParts == [i \in 1 .. n |-> [column |-> order[i], index |-> i]]
                         \o <<[column |-> "updated_at", index |-> n + 1]>>
             args == [i \in 1 .. n |-> updates[order[i]]] \o <<Instant(at)>> \o <<Id(id)>>
             q == [set |-> setParts, where |-> n + 2, args |-> args]
             r == Exec(tbl, q)
         IN  IF r.err # "" THEN Answer("failed to update user", q, TRUE, r.table)
             ELSE IF r.rowsAffected = 0 THEN Answer("user not found", q, TRUE, r.table)
             ELSE Answer("", q, TRUE, r.table)

\* the map UserService.UpdateUser fills: a key for each field of the request that is set
Updates(req) ==
    LET keys == {f \in RequestFields :
                    \/ f = "username" /\ req.Username # ""
                    \/ f = "email" /\ req.Email # ""
                    \/ f = "full_name" /\ req.FullName # ""
                    \/ f = "is_active" /\ req.IsActive # "nil"}
    IN  [f \in keys |->
            CASE f = "username" -> Str(req.Username)
              [] f = "email" -> Str(req.Email)
              [] f = "full_name" -> Str(req.FullName)
              [] f = "is_active" -> Str(req.IsActive)]

\* UserService.UpdateUser(id, req); order is the order range walks the map in
UserService_UpdateUser(tbl, id, req, order, at) ==
    IF req.Username # "" /\ CheckExists(tbl, "username", req.Username, id)
    THEN Answer("username already exists", NoStatement, FALSE, tbl)
    ELSE IF req.Email # "" /\ CheckExists(tbl, "email", req.Email, id)
    THEN Answer("email already exists", NoStatement, FALSE, tbl)
    ELSE UserRepository_UpdateUser(tbl, id, Updates(req), order, at)

\* a handler that hands the keys of the body to the repository as they came
UserHandler_UpdateUser_rawMap(tbl, id, body, order, at) ==
    LET keys == {f \in BodyFields : body[f] # Absent}
    IN  UserRepository_UpdateUser(tbl, id, [f \in keys |-> Str(body[f])],
                                  CHOOSE o \in Orders(keys) : TRUE, at)
            @@ [status |-> 200]

\* the status UserHandler.UpdateUser answers an error of the service with
StatusOf(err) ==
    CASE err = "" -> 200
      [] err = "user not found" -> 404
      [] err \in {"email already exists", "username already exists"} -> 409
      [] OTHER -> 500

\* UserHandler.UpdateUser for a numeric :id: the status of the answer and what was done
UserHandler_UpdateUser(tbl, id, body, order, at) ==
    LET b == ShouldBindJSON(body)
    IN  IF ~b.ok THEN Answer("Invalid JSON format", NoStatement, FALSE, tbl) @@ [status |-> 400]
        ELSE LET r == UserService_UpdateUser(tbl, id, b.req, order, at)
             IN  [err |-> r.err, query |-> r.query, sent |-> r.sent, table |-> r.table,
                  status |-> StatusOf(r.err)]

\* no PUT being handled
NoUpdate ==
    [pc |-> "none", id |-> 0, body |-> [f \in BodyFields |-> Absent], at |-> 0,
     before |-> InitTable,
     res |-> Answer("", NoStatement, FALSE, InitTable) @@ [status |-> 0]]

----------------------------------------------------------------------------
(* PostgresDB.Transaction(fn).  fn is what it does with the tx, step by step: a  *)
(* statement that succeeds, a statement that fails (fn returns the error, as the  *)
(* function of ExecuteInTransaction does), or a panic; after its last step fn     *)
(* returns nil.  An error is its text, nil is "".                                 *)

nil == ""
Steps == {"exec", "fail", "panic"}
RECURSIVE Scripts(_)
Scripts(n) ==
    IF n = 0 THEN {<<>>}
    ELSE Scripts(n - 1) \cup {Append(f, st) : f \in Scripts(n - 1), st \in Steps}

\* no call: err is the local variable, result the value the caller gets, raised whether
\* the caller gets a panic instead; began, commits and rollbacks count what the call did
\* to its transaction, pending holds the statements the transaction has run
NoTx ==
    [pc |-> "idle", fn |-> <<>>, step |-> 0, err |-> nil, result |-> nil, p |-> nil,
     raised |-> FALSE, began |-> 0, commits |-> 0, rollbacks |-> 0, committed |-> FALSE,
     pending |-> <<>>]

\* a connection with nothing committed and no transaction open
NoConn == [data |-> <<>>, open |-> 0, calls |-> 0]

\* tx.Commit(): the transaction ends; its statements are durable if the commit succeeds
Commit(cn, t, ok) ==
    [cn EXCEPT !.open = @ - 1, !.data = IF ok THEN @ \o t.pending ELSE @]

\* tx.Rollback(): the transaction ends and its statements are dropped
Rollback(cn, t) == [cn EXCEPT !.open = @ - 1]

\* `return err` with the unnamed result of Transaction: the value of err is copied to
\* the result before the deferred function runs
ReturnErr(t) == [t EXCEPT !.result = t.err, !.pc = "deferred"]

\* the deferred function of Transaction; commitOk and rollbackOk are what the database
\* answers.  It assigns commitErr to the variable err, not to the result.
Deferred(t, cn, commitOk, rollbackOk) ==
    IF t.p # nil
    THEN [tx |-> [t EXCEPT !.rollbacks = @ + 1, !.raised = TRUE, !.pc = "done"],
          conn |-> Rollback(cn, t)]
    ELSE IF t.err # nil
    THEN [tx |-> [t EXCEPT !.rollbacks = @ + 1, !.pc = "done"],
          conn |-> Rollback(cn, t)]
    ELSE [tx |-> [t EXCEPT !.commits = @ + 1, !.committed = commitOk, !.pc = "done",
                           !.err = IF commitOk THEN nil ELSE "commit failed"],
          conn |-> Commit(cn, t, commitOk)]

----------------------------------------------------------------------------
(* State *)

NoResult ==
    [ok |-> FALSE, claims |-> NoClaims, token |-> EmptyToken, err |-> NoError,
     steps |-> <<>>, expired |-> FALSE]

NoCall ==
    [op |-> "none", kind |-> "none", tok |-> EmptyToken, bit |-> 0, ttl |-> 0, at |-> 0,
     res |-> NoResult]

\* a held token: the string, the claims GenerateToken built, the arguments of the call
\* and the number of times the token has been refreshed since
NoToken ==
    [some |-> FALSE, tok |-> EmptyToken, claims |-> NoClaims, ttl |-> 0, at |-> 0,
     skew |-> 0, refreshes |-> 0]

\* the clock of a peer instance holding the same secret may run a second ahead
Skews == {0, TicksPerSec}

\* a request goroutine that is not inside limiter.Allow()
Idle == [pc |-> "idle", t |-> 0, tokens |-> 0]

\* the goroutines that share one RedisClient
CounterHorizon == TicksPerSec + 1
Callers == 1 .. NumCallers

\* a caller that is not inside IncrementCounter; inside, call is the number of the call
\* in the order the calls were made, began the number of calls that had returned when
\* it was made, fresh whether its INCR created the key, n what incrCmd.Val() holds
NoPipe ==
    [pc |-> "idle", key |-> "", expiration |-> 0, call |-> 0, began |-> 0,
     fresh |-> FALSE, n |-> 0, ok |-> FALSE]

\* the token service alone; the limiter stays as constructed
Init ==
    /\ now = 0
    /\ parserOrder \in {"claims_first", "signature_first"}
    /\ held = NoToken
    /\ last = NoCall
    /\ lim = NewLimiter(MaxRate, MaxBurst)
    /\ mu = 0
    /\ reqs = [p \in Reqs |-> Idle]
    /\ log = <<>>
    /\ chain = MainChain
    /\ ctx = NoContext
    /\ store = EmptyStore
    /\ rcall = NoRedisCall
    /\ pipes = [p \in Callers |-> NoPipe]
    /\ counts = <<>>
    /\ db = InitTable
    /\ upd = NoUpdate
    /\ tx = NoTx
    /\ conn = NoConn

\* one RateLimiter(requestsPerSecond, burstSize) stage; no token call is made
InitLimiter ==
    /\ now = 0
    /\ parserOrder = "signature_first"
    /\ held = NoToken
    /\ last = NoCall
    /\ \E r \in Rates, b \in Bursts : lim = NewLimiter(r, b)
    /\ mu = 0
    /\ reqs = [p \in Reqs |-> Idle]
    /\ log = <<>>
    /\ chain = MainChain
    /\ ctx = NoContext
    /\ store = EmptyStore
    /\ rcall = NoRedisCall
    /\ pipes = [p \in Callers |-> NoPipe]
    /\ counts = <<>>
    /\ db = InitTable
    /\ upd = NoUpdate
    /\ tx = NoTx
    /\ conn = NoConn

Tick ==
    /\ last = NoCall
    /\ ~ctx.active
    /\ now < MaxTime
    /\ now' = now + 1
    /\ UNCHANGED <<tokenVars, limiterVars, pipeVars, cacheVars, counterVars, repoVars, txVars>>

\* GenerateToken called for user u, by this instance (skew 0) or by a peer
Issue(u, ttl, skew) ==
    /\ last = NoCall
    /\ LET t == GenerateToken(u.id, u.username, u.email, u.role, ttl, now + skew)
       IN  /\ held' = [some |-> TRUE, tok |-> t,
                       claims |-> BuildClaims(u.id, u.username, u.email, u.role, ttl, now + skew),
                       ttl |-> ttl, at |-> now, skew |-> skew, refreshes |-> 0]
           /\ last' = [NoCall EXCEPT !.op = "issue", !.kind = "issued", !.tok = t,
                                     !.ttl = ttl, !.at = now,
                                     !.res = [NoResult EXCEPT !.ok = TRUE, !.token = t]]
    /\ UNCHANGED <<limiterVars, pipeVars, cacheVars, now, parserOrder, counterVars, repoVars, txVars>>

Validate(in) ==
    /\ last = NoCall
    /\ LET v == ValidateToken(in.tok, now)
       IN  last' = [NoCall EXCEPT !.op = "validate", !.kind = in.kind, !.tok = in.tok,
                                  !.bit = in.bit, !.at = now,
                                  !.res = [NoResult EXCEPT !.ok = v.ok, !.claims = v.claims,
                                                           !.err = v.err, !.steps = v.steps]]
    /\ UNCHANGED <<limiterVars, pipeVars, cacheVars, now, parserOrder, held, counterVars, repoVars, txVars>>

Refresh(in, ttl) ==
    /\ last = NoCall
    /\ LET r == RefreshToken(in.tok, ttl, now)
       IN  /\ held' = IF r.ok /\ held.refreshes < MaxRefreshes
                      THEN [held EXCEPT !.refreshes = @ + 1]
                      ELSE held
           /\ last' = [NoCall EXCEPT !.op = "refresh", !.kind = in.kind, !.tok = in.tok,
                                     !.bit = in.bit, !.ttl = ttl, !.at = now,
                                     !.res = [NoResult EXCEPT !.ok = r.ok, !.token = r.token,
                                                              !.err = r.err]]
    /\ UNCHANGED <<limiterVars, pipeVars, cacheVars, now, parserOrder, counterVars, repoVars, txVars>>

IsExpired(in) ==
    /\ last = NoCall
    /\ last' = [NoCall EXCEPT !.op = "isExpired", !.kind = in.kind, !.tok = in.tok,
                              !.bit = in.bit, !.at = now,
                              !.res = [NoResult EXCEPT !.expired = IsTokenExpired(in.tok, now)]]
    /\ UNCHANGED <<limiterVars, pipeVars, cacheVars, now, parserOrder, held, counterVars, repoVars, txVars>>

\* the caller takes the result; after a refresh it may go on with the new token
Return ==
    /\ last # NoCall
    /\ last' = NoCall
    /\ UNCHANGED <<limiterVars, pipeVars, cacheVars, now, parserOrder, held, counterVars, repoVars, txVars>>

Adopt ==
    /\ last.op = "refresh"
    /\ last.res.ok
    /\ held' = [some |-> TRUE, tok |-> last.res.token,
                claims |-> UnmarshalClaims(last.res.token.payload),
                ttl |-> last.ttl, at |-> last.at, skew |-> 0, refreshes |-> 0]
    /\ last' = NoCall
    /\ UNCHANGED <<limiterVars, pipeVars, cacheVars, now, parserOrder, counterVars, repoVars, txVars>>

NextToken ==
    \/ Tick
    \/ \E u \in Users, ttl \in TTLs, skew \in Skews : Issue(u, ttl, skew)
    \/ \E in \in Inputs : Validate(in)
    \/ \E in \in UnflippedInputs, ttl \in TTLs : Refresh(in, ttl)
    \/ \E in \in UnflippedInputs : IsExpired(in)
    \/ Return
    \/ Adopt

SpecToken == Init /\ [][NextToken]_vars

----------------------------------------------------------------------------
(* The RateLimiter stage: each request runs limiter.Allow() on its own goroutine *)

InFlight == {p \in Reqs : reqs[p].pc # "idle"}

\* Allow() = AllowN(time.Now(), 1): the clock is read before lim.mu is taken
ReadClock(p) ==
    /\ reqs[p].pc = "idle"
    /\ Len(log) + Cardinality(InFlight) < MaxCalls(lim.burst)
    /\ reqs' = [reqs EXCEPT ![p] = [pc |-> "called", t |-> now, tokens |-> 0]]
    /\ UNCHANGED <<now, tokenVars, pipeVars, cacheVars, lim, mu, log, counterVars, repoVars, txVars>>

\* reserveN: lim.mu.Lock()
Lock(p) ==
    /\ reqs[p].pc = "called"
    /\ mu = 0
    /\ mu' = p
    /\ reqs' = [reqs EXCEPT ![p].pc = "locked"]
    /\ UNCHANGED <<now, tokenVars, pipeVars, cacheVars, lim, log, counterVars, repoVars, txVars>>

\* reserveN: t, tokens := lim.advance(t)
Advance(p) ==
    /\ reqs[p].pc = "locked"
    /\ reqs' = [reqs EXCEPT ![p].pc = "advanced", ![p].tokens = advance(lim, reqs[p].t)]
    /\ UNCHANGED <<now, tokenVars, pipeVars, cacheVars, lim, mu, log, counterVars, repoVars, txVars>>

\* reserveN: decide, update the state, unlock (deferred); the stage then answers 429
\* or calls c.Next()
Reserve(p) ==
    /\ reqs[p].pc = "advanced"
    /\ LET r == reserveN(lim, reqs[p].t, reqs[p].tokens)
       IN  /\ lim' = r.lim
           /\ log' = Append(log, [t |-> reqs[p].t, ok |-> r.ok, left |-> r.lim.tokens])
    /\ mu' = 0
    /\ reqs' = [reqs EXCEPT ![p] = Idle]
    /\ UNCHANGED <<now, tokenVars, pipeVars, cacheVars, counterVars, repoVars, txVars>>

\* time passes while requests are in the stage or between them
Elapse ==
    /\ now < LimiterHorizon
    /\ now' = now + 1
    /\ UNCHANGED <<tokenVars, limiterVars, pipeVars, cacheVars, counterVars, repoVars, txVars>>

NextLimiter ==
    \/ Elapse
    \/ \E p \in Reqs : ReadClock(p)
    \/ \E p \in Reqs : Lock(p)
    \/ \E p \in Reqs : Advance(p)
    \/ \E p \in Reqs : Reserve(p)

SpecLimiter == InitLimiter /\ [][NextLimiter]_vars

----------------------------------------------------------------------------
(* The middleware pipeline: one request at a time through the chain *)

\* a token of the service, issued at time 0 for one second
IssuedToken ==
    GenerateToken("u1", "ann", "ann@example.com", "admin", TicksPerSec, 0)

AuthHeaders ==
    {NoAuth}
    \cup {AuthHeader("Bearer ", t) : t \in {IssuedToken, Resigned(IssuedToken), EmptyToken,
                                            WithNumericID(IssuedToken, secretKey)}}
    \cup {AuthHeader(sch, IssuedToken) : sch \in {"", "bearer ", "Basic "}}

\* the stages of a chain in which a fault can be raised: all but the fault boundary
Faultable(ch) == {ch[i] : i \in DOMAIN ch} \ {"Recovery", "ginRecovery"}

Requests(ch) ==
    [method : {"GET", "OPTIONS"}, path : {"/health", "/api/v1/users"},
     auth : AuthHeaders, size : {0, maxSize + 1}, fault : {"none"} \cup Faultable(ch)]

InitPipeline ==
    /\ now = 0
    /\ parserOrder = "signature_first"
    /\ held = NoToken
    /\ last = NoCall
    /\ lim = NewLimiter(MaxRate, MaxBurst)
    /\ mu = 0
    /\ reqs = [p \in Reqs |-> Idle]
    /\ log = <<>>
    /\ chain \in Chains
    /\ ctx = NoContext
    /\ store = EmptyStore
    /\ rcall = NoRedisCall
    /\ pipes = [p \in Callers |-> NoPipe]
    /\ counts = <<>>
    /\ db = InitTable
    /\ upd = NoUpdate
    /\ tx = NoTx
    /\ conn = NoConn

\* the handler ctx.Next() is about to call
Current ==
    IF ctx.active /\ ~ctx.escaped /\ ctx.index \in DOMAIN chain THEN chain[ctx.index] ELSE "none"

\* the request has left the chain
Completed == ctx.active /\ (ctx.escaped \/ ctx.index > Len(chain))

\* the handler about to run raises a panic
Faults == Current # "none" /\ ctx.req.fault = Current /\ ~ctx.faulted

Runs(stage) == Current = stage /\ ~Faults

\* engine.handleHTTPRequest: ctx.reset(), ctx.handlers = chain, ctx.Next()
Arrive(r) ==
    /\ ~ctx.active
    /\ ctx' = [NoContext EXCEPT !.active = TRUE, !.req = r, !.index = 1, !.at = now,
                              !.lim0 = lim]
    /\ UNCHANGED <<now, tokenVars, limiterVars, chain, cacheVars, counterVars, repoVars, txVars>>

StageRecovery ==
    /\ \/ Runs("Recovery")
       \/ Runs("ginRecovery")
    /\ ctx' = ArmRecovery(ctx, Current)
    /\ UNCHANGED <<now, tokenVars, limiterVars, chain, cacheVars, counterVars, repoVars, txVars>>

StageLogger ==
    /\ Runs("Logger")
    /\ ctx' = Logger(ctx)
    /\ UNCHANGED <<now, tokenVars, limiterVars, chain, cacheVars, counterVars, repoVars, txVars>>

StageCORS ==
    /\ Runs("CORS")
    /\ ctx' = CORS(ctx)
    /\ UNCHANGED <<now, tokenVars, limiterVars, chain, cacheVars, counterVars, repoVars, txVars>>

StageRateLimiter ==
    /\ Runs("RateLimiter")
    /\ LET r == RateLimiter(ctx, lim, now)
       IN  /\ ctx' = r.c
           /\ lim' = r.lim
    /\ UNCHANGED <<now, tokenVars, mu, reqs, log, chain, cacheVars, counterVars, repoVars, txVars>>

StageJWTAuth ==
    /\ Runs("JWTAuth")
    /\ ctx' = JWTAuth(ctx, secretKey, now, parserOrder)
    /\ UNCHANGED <<now, tokenVars, limiterVars, chain, cacheVars, counterVars, repoVars, txVars>>

StageRequestID ==
    /\ Runs("RequestID")
    /\ ctx' = RequestID(ctx)
    /\ UNCHANGED <<now, tokenVars, limiterVars, chain, cacheVars, counterVars, repoVars, txVars>>

StageTimeout ==
    /\ Runs("Timeout")
    /\ ctx' = Timeout(ctx, now)
    /\ UNCHANGED <<now, tokenVars, limiterVars, chain, cacheVars, counterVars, repoVars, txVars>>

StageHealthCheck ==
    /\ Runs("HealthCheck")
    /\ ctx' = HealthCheck(ctx)
    /\ UNCHANGED <<now, tokenVars, limiterVars, chain, cacheVars, counterVars, repoVars, txVars>>

StageSecurityHeaders ==
    /\ Runs("SecurityHeaders")
    /\ ctx' = SecurityHeaders(ctx)
    /\ UNCHANGED <<now, tokenVars, limiterVars, chain, cacheVars, counterVars, repoVars, txVars>>

StageRequestSize ==
    /\ Runs("RequestSize")
    /\ ctx' = RequestSize(ctx)
    /\ UNCHANGED <<now, tokenVars, limiterVars, chain, cacheVars, counterVars, repoVars, txVars>>

StageHandler ==
    /\ Runs("handler")
    /\ ctx' = handler(ctx)
    /\ UNCHANGED <<now, tokenVars, limiterVars, chain, cacheVars, counterVars, repoVars, txVars>>

\* a panic in the handler about to run: it unwinds to the deferred recover() of the
\* recovery stage if that is armed, else it leaves the chain
Panic ==
    /\ Faults
    /\ LET y == [ctx EXCEPT !.faulted = TRUE]
           z == [y EXCEPT !.guarded = FALSE, !.caught = @ + 1]
       IN  ctx' = IF ~ctx.guarded THEN [y EXCEPT !.escaped = TRUE]
                ELSE IF chain[RecoveryBelow(chain, ctx.index)] = "Recovery" THEN Recovery(z)
                ELSE ginRecovery(z)
    /\ UNCHANGED <<now, tokenVars, limiterVars, chain, cacheVars, counterVars, repoVars, txVars>>

\* the response is sent and the context goes back to the pool
Finish ==
    /\ Completed
    /\ ctx' = NoContext
    /\ UNCHANGED <<now, tokenVars, limiterVars, chain, cacheVars, counterVars, repoVars, txVars>>

NextPipeline ==
    \/ Tick
    \/ \E r \in Requests(chain) : Arrive(r)
    \/ StageRecovery
    \/ StageLogger
    \/ StageCORS
    \/ StageRateLimiter
    \/ StageJWTAuth
    \/ StageRequestID
    \/ StageTimeout
    \/ StageHealthCheck
    \/ StageSecurityHeaders
    \/ StageRequestSize
    \/ StageHandler
    \/ Panic
    \/ Finish

SpecPipeline == InitPipeline /\ [][NextPipeline]_vars

----------------------------------------------------------------------------
(* RedisClient: one caller, one call at a time, against the store *)

Expirations == {TicksPerSec}

InitCache ==
    /\ now = 0
    /\ parserOrder = "signature_first"
    /\ held = NoToken
    /\ last = NoCall
    /\ lim = NewLimiter(MaxRate, MaxBurst)
    /\ mu = 0
    /\ reqs = [p \in Reqs |-> Idle]
    /\ log = <<>>
    /\ chain = MainChain
    /\ ctx = NoContext
    /\ store = EmptyStore
    /\ rcall = NoRedisCall
    /\ pipes = [p \in Callers |-> NoPipe]
    /\ counts = <<>>
    /\ db = InitTable
    /\ upd = NoUpdate
    /\ tx = NoTx
    /\ conn = NoConn

\* CacheWithCallback(key, expiration, callback), from its call to its return
CallCacheWithCallback(key, expiration, cb, getUp, setUp) ==
    /\ rcall.op = "none"
    /\ now <= MaxTime
    /\ LET r == CacheWithCallback(store, key, expiration, cb, getUp, setUp, now)
       IN  /\ store' = r.store
           /\ rcall' = [NoRedisCall EXCEPT !.op = "CacheWithCallback", !.pc = "returned",
                           !.key = key, !.expiration = expiration, !.cb = cb,
                           !.getUp = getUp, !.setUp = setUp, !.at = now, !.before = store,
                           !.ok = r.ok, !.value = r.value, !.err = r.err,
                           !.calls = r.calls]
    /\ UNCHANGED <<now, tokenVars, limiterVars, pipeVars, counterVars, repoVars, txVars>>

\* a handler running under the Timeout stage calls Get(key): Get makes its own context
\* from context.Background(); the request's scope ends at reqDeadline
CallGet(key) ==
    /\ rcall.op = "none"
    /\ now <= MaxTime
    /\ rcall' = [NoRedisCall EXCEPT !.op = "Get", !.pc = "waiting", !.key = key,
                    !.at = now, !.before = store,
                    !.ctxDeadline = now + RedisTimeout * TicksPerSec,
                    !.reqDeadline = now + timeout]
    /\ UNCHANGED <<now, tokenVars, limiterVars, pipeVars, store, counterVars, repoVars, txVars>>

\* the client of the request goes away: c.Request.Context() is cancelled
CancelRequest ==
    /\ rcall.pc = "waiting"
    /\ rcall.cancelAt < 0
    /\ rcall' = [rcall EXCEPT !.cancelAt = now]
    /\ UNCHANGED <<now, tokenVars, limiterVars, pipeVars, store, counterVars, repoVars, txVars>>

\* the store answers the GET, or refuses it
GetReply(up) ==
    /\ rcall.pc = "waiting"
    /\ now < rcall.ctxDeadline
    /\ LET g == Get(store, rcall.key, up, now)
       IN  rcall' = [rcall EXCEPT !.pc = "returned", !.ok = g.ok, !.err = g.err,
                                  !.value = [NoValue EXCEPT !.type = "string",
                                                            !.v = g.value]]
    /\ UNCHANGED <<now, tokenVars, limiterVars, pipeVars, store, counterVars, repoVars, txVars>>

\* the context of Get expires: r.Client.Get returns context.DeadlineExceeded
GetTimeout ==
    /\ rcall.pc = "waiting"
    /\ now >= rcall.ctxDeadline
    /\ rcall' = [rcall EXCEPT !.pc = "returned", !.ok = FALSE,
                              !.err = "failed to get value"]
    /\ UNCHANGED <<now, tokenVars, limiterVars, pipeVars, store, counterVars, repoVars, txVars>>

\* IncrementCounter: INCR and EXPIRE are queued on a Pipeline and sent by Exec
CallIncrementCounter(key, expiration) ==
    /\ rcall.op = "none"
    /\ now <= MaxTime
    /\ store[key].n < MaxCount
    /\ rcall' = [NoRedisCall EXCEPT !.op = "IncrementCounter", !.pc = "queued",
                    !.key = key, !.expiration = expiration, !.at = now,
                    !.before = store]
    /\ UNCHANGED <<now, tokenVars, limiterVars, pipeVars, store, counterVars, repoVars, txVars>>

\* the server runs the INCR of the batch
ExecIncr ==
    /\ rcall.pc = "queued"
    /\ store' = RedisIncr(store, rcall.key, now)
    /\ rcall' = [rcall EXCEPT !.pc = "incremented", !.n = store'[rcall.key].n]
    /\ UNCHANGED <<now, tokenVars, limiterVars, pipeVars, counterVars, repoVars, txVars>>

\* the server runs the EXPIRE of the batch; Exec returns, incrCmd.Val() is the count
ExecExpire ==
    /\ rcall.pc = "incremented"
    /\ store' = RedisExpire(store, rcall.key, rcall.expiration, now)
    /\ rcall' = [rcall EXCEPT !.pc = "returned", !.ok = TRUE]
    /\ UNCHANGED <<now, tokenVars, limiterVars, pipeVars, counterVars, repoVars, txVars>>

\* the connection or the server fails before the batch is through: Exec returns an error
ExecFails ==
    /\ rcall.pc \in {"queued", "incremented"}
    /\ rcall' = [rcall EXCEPT !.pc = "returned", !.ok = FALSE, !.n = 0,
                              !.err = "failed to increment counter"]
    /\ UNCHANGED <<now, tokenVars, limiterVars, pipeVars, store, counterVars, repoVars, txVars>>

\* the caller takes the result
ReturnRedis ==
    /\ rcall.pc = "returned"
    /\ rcall' = NoRedisCall
    /\ UNCHANGED <<now, tokenVars, limiterVars, pipeVars, store, counterVars, repoVars, txVars>>

\* time passes between calls, and while a Get waits for the store
Pass ==
    /\ \/ rcall.op = "none" /\ now < MaxTime
       \/ rcall.pc = "waiting" /\ now < rcall.ctxDeadline
    /\ now' = now + 1
    /\ UNCHANGED <<tokenVars, limiterVars, pipeVars, cacheVars, counterVars, repoVars, txVars>>

NextCache ==
    \/ Pass
    \/ \E key \in CacheKeys, e \in Expirations, cb \in Callbacks, getUp, setUp \in BOOLEAN :
          CallCacheWithCallback(key, e, cb, getUp, setUp)
    \/ \E key \in CacheKeys : CallGet(key)
    \/ CancelRequest
    \/ \E up \in BOOLEAN : GetReply(up)
    \/ GetTimeout
    \/ \E key \in CounterKeys, e \in Expirations : CallIncrementCounter(key, e)
    \/ ExecIncr
    \/ ExecExpire
    \/ ExecFails
    \/ ReturnRedis

SpecCache == InitCache /\ [][NextCache]_vars

----------------------------------------------------------------------------
(* RedisClient.IncrementCounter called from several goroutines on one key *)

InitCounter ==
    /\ now = 0
    /\ parserOrder = "signature_first"
    /\ held = NoToken
    /\ last = NoCall
    /\ lim = NewLimiter(MaxRate, MaxBurst)
    /\ mu = 0
    /\ reqs = [p \in Reqs |-> Idle]
    /\ log = <<>>
    /\ chain = MainChain
    /\ ctx = NoContext
    /\ store = EmptyStore
    /\ rcall = NoRedisCall
    /\ pipes = [p \in Callers |-> NoPipe]
    /\ counts = <<>>
    /\ db = InitTable
    /\ upd = NoUpdate
    /\ tx = NoTx
    /\ conn = NoConn

\* the calls of IncrementCounter made so far
Made == Len(counts) + Cardinality({p \in Callers : pipes[p].pc # "idle"})

\* pipe := r.Client.Pipeline(); pipe.Incr(ctx, key); pipe.Expire(ctx, key, expiration)
QueueIncrement(p, key, expiration) ==
    /\ pipes[p].pc = "idle"
    /\ Made <= MaxCount
    /\ pipes' = [pipes EXCEPT ![p] = [NoPipe EXCEPT !.pc = "queued", !.key = key,
                     !.expiration = expiration, !.call = Made + 1,
                     !.began = Len(counts)]]
    /\ UNCHANGED <<now, tokenVars, limiterVars, pipeVars, cacheVars, counts, repoVars, txVars>>

\* pipe.Exec: the server runs the INCR of the batch
PipeIncr(p) ==
    /\ pipes[p].pc = "queued"
    /\ store' = RedisIncr(store, pipes[p].key, now)
    /\ pipes' = [pipes EXCEPT ![p].pc = "incremented",
                              ![p].fresh = ~Live(store[pipes[p].key], now),
                              ![p].n = store'[pipes[p].key].n]
    /\ UNCHANGED <<now, tokenVars, limiterVars, pipeVars, rcall, counts, repoVars, txVars>>

\* pipe.Exec: the server runs the EXPIRE of the batch, and Exec returns nil
PipeExpire(p) ==
    /\ pipes[p].pc = "incremented"
    /\ store' = RedisExpire(store, pipes[p].key, pipes[p].expiration, now)
    /\ pipes' = [pipes EXCEPT ![p].pc = "executed", ![p].ok = TRUE]
    /\ UNCHANGED <<now, tokenVars, limiterVars, pipeVars, rcall, counts, repoVars, txVars>>

\* pipe.Exec returns an error: the connection fails before the batch is through
\* (once among the calls made)
PipeFails(p) ==
    /\ pipes[p].pc \in {"queued", "incremented"}
    /\ \A i \in 1 .. Len(counts) : counts[i].ok
    /\ \A q \in Callers : pipes[q].pc = "executed" => pipes[q].ok
    /\ pipes' = [pipes EXCEPT ![p].pc = "executed", ![p].ok = FALSE]
    /\ UNCHANGED <<now, tokenVars, limiterVars, pipeVars, cacheVars, counts, repoVars, txVars>>

\* return incrCmd.Val(), nil; or return 0 and the wrapped error
ReturnCount(p) ==
    /\ pipes[p].pc = "executed"
    /\ counts' = Append(counts, [pipes[p] EXCEPT !.n = IF pipes[p].ok THEN @ ELSE 0])
    /\ pipes' = [pipes EXCEPT ![p] = NoPipe]
    /\ UNCHANGED <<now, tokenVars, limiterVars, pipeVars, cacheVars, repoVars, txVars>>

\* time passes, between the calls and inside them, until the key of a call made at 0
\* has expired
Wait ==
    /\ now < CounterHorizon
    /\ now' = now + 1
    /\ UNCHANGED <<tokenVars, limiterVars, pipeVars, cacheVars, counterVars, repoVars, txVars>>

NextCounter ==
    \/ Wait
    \/ \E p \in Callers, key \in CounterKeys, e \in Expirations : QueueIncrement(p, key, e)
    \/ \E p \in Callers : PipeIncr(p)
    \/ \E p \in Callers : PipeExpire(p)
    \/ \E p \in Callers : PipeFails(p)
    \/ \E p \in Callers : ReturnCount(p)

SpecCounter == InitCounter /\ [][NextCounter]_vars

----------------------------------------------------------------------------
(* user-management: one PUT /users/:id at a time against the users table *)

InitUpdate ==
    /\ now = 0
    /\ parserOrder = "signature_first"
    /\ held = NoToken
    /\ last = NoCall
    /\ lim = NewLimiter(MaxRate, MaxBurst)
    /\ mu = 0
    /\ reqs = [p \in Reqs |-> Idle]
    /\ log = <<>>
    /\ chain = MainChain
    /\ ctx = NoContext
    /\ store = EmptyStore
    /\ rcall = NoRedisCall
    /\ pipes = [p \in Callers |-> NoPipe]
    /\ counts = <<>>
    /\ db = InitTable
    /\ upd = NoUpdate
    /\ tx = NoTx
    /\ conn = NoConn

\* PUT /users/:id with a JSON body, from the handler to its answer
PutUser(id, body, order) ==
    /\ upd.pc = "none"
    /\ LET r == UserHandler_UpdateUser(db, id, body, order, now)
       IN  /\ db' = r.table
           /\ upd' = [pc |-> "answered", id |-> id, body |-> body, at |-> now,
                      before |-> db, res |-> r]
    /\ UNCHANGED <<now, tokenVars, limiterVars, pipeVars, cacheVars, counterVars, txVars>>

\* the client has the answer
AnswerPut ==
    /\ upd.pc = "answered"
    /\ upd' = NoUpdate
    /\ UNCHANGED <<now, tokenVars, limiterVars, pipeVars, cacheVars, counterVars, db, txVars>>

\* time passes between two requests
Later ==
    /\ upd.pc = "none"
    /\ now < TicksPerSec
    /\ now' = now + 1
    /\ UNCHANGED <<tokenVars, limiterVars, pipeVars, cacheVars, counterVars, repoVars, txVars>>

NextUpdate ==
    \/ Later
    \/ \E id \in Targets, body \in Bodies :
          \E order \in Orders(DOMAIN Updates(Decode(body))) : PutUser(id, body, order)
    \/ AnswerPut

SpecUpdate == InitUpdate /\ [][NextUpdate]_vars

----------------------------------------------------------------------------
(* PostgresDB.Transaction: one call at a time on one connection *)

InitTx ==
    /\ now = 0
    /\ parserOrder = "signature_first"
    /\ held = NoToken
    /\ last = NoCall
    /\ lim = NewLimiter(MaxRate, MaxBurst)
    /\ mu = 0
    /\ reqs = [p \in Reqs |-> Idle]
    /\ log = <<>>
    /\ chain = MainChain
    /\ ctx = NoContext
    /\ store = EmptyStore
    /\ rcall = NoRedisCall
    /\ pipes = [p \in Callers |-> NoPipe]
    /\ counts = <<>>
    /\ db = InitTable
    /\ upd = NoUpdate
    /\ tx = NoTx
    /\ conn = NoConn

\* db.Transaction(fn) is called
CallTransaction(fn) ==
    /\ tx.pc = "idle"
    /\ conn.calls < MaxTx
    /\ tx' = [NoTx EXCEPT !.pc = "called", !.fn = fn, !.step = 1]
    /\ conn' = [conn EXCEPT !.calls = @ + 1]
    /\ UNCHANGED <<now, tokenVars, limiterVars, pipeVars, cacheVars, counterVars, repoVars>>

\* tx, err := db.Connection.Beginx(); on an error Transaction returns it wrapped
Beginx(ok) ==
    /\ tx.pc = "called"
    /\ IF ok
       THEN /\ tx' = [tx EXCEPT !.pc = "begun", !.began = @ + 1]
            /\ conn' = [conn EXCEPT !.open = @ + 1]
       ELSE /\ tx' = [tx EXCEPT !.pc = "done", !.err = "failed to begin transaction",
                                !.result = "failed to begin transaction"]
            /\ conn' = conn
    /\ UNCHANGED <<now, tokenVars, limiterVars, pipeVars, cacheVars, counterVars, repoVars>>

\* err = fn(tx): fn takes its next step, or returns nil after the last
Fn ==
    /\ tx.pc = "begun"
    /\ tx' = IF tx.step > Len(tx.fn) THEN [tx EXCEPT !.err = nil, !.pc = "returning"]
             ELSE CASE tx.fn[tx.step] = "exec" ->
                          [tx EXCEPT !.pending = Append(@, conn.calls), !.step = @ + 1]
                    [] tx.fn[tx.step] = "fail" ->
                          [tx EXCEPT !.err = "failed to execute query", !.pc = "returning"]
                    [] tx.fn[tx.step] = "panic" ->
                          [tx EXCEPT !.p = "panic", !.pc = "deferred"]
    /\ UNCHANGED <<now, tokenVars, limiterVars, pipeVars, cacheVars, counterVars, repoVars, conn>>

\* return err
ReturnStatement ==
    /\ tx.pc = "returning"
    /\ tx' = ReturnErr(tx)
    /\ UNCHANGED <<now, tokenVars, limiterVars, pipeVars, cacheVars, counterVars, repoVars, conn>>

\* the deferred function runs, on the return or on the panic
RunDeferred(commitOk, rollbackOk) ==
    /\ tx.pc = "deferred"
    /\ LET d == Deferred(tx, conn, commitOk, rollbackOk)
       IN  tx' = d.tx /\ conn' = d.conn
    /\ UNCHANGED <<now, tokenVars, limiterVars, pipeVars, cacheVars, counterVars, repoVars>>

\* the caller has the result, or the panic
ReturnTx ==
    /\ tx.pc = "done"
    /\ tx' = NoTx
    /\ UNCHANGED <<now, tokenVars, limiterVars, pipeVars, cacheVars, counterVars, repoVars, conn>>

NextTx ==
    \/ \E fn \in Scripts(MaxSteps) : CallTransaction(fn)
    \/ \E ok \in BOOLEAN : Beginx(ok)
    \/ Fn
    \/ ReturnStatement
    \/ \E commitOk, rollbackOk \in BOOLEAN : RunDeferred(commitOk, rollbackOk)
    \/ ReturnTx

SpecTx == InitTx /\ [][NextTx]_vars

----------------------------------------------------------------------------
(* Properties of the token service *)

\* what jwt.ParseWithClaims reports for the token of the call that has just returned
Parsed == ParseWithClaims(last.tok, secretKey, last.at, parserOrder)

\* the token is well formed and its signature is the MAC under the manager's secret
SigOK(t) ==
    /\ ParseUnverified(t) = {}
    /\ Keyfunc(t)
    /\ Verify(t.header, t.payload, t.sig, secretKey)

\* C1: validation runs decode, then signature verification, then the time checks: the
\* claims of a token are checked only after its signature was verified as correct, and
\* a token with a bad signature is never reported as Expired or NotValidYet.
C1_SignatureBeforeTimeChecks ==
    last.op = "validate" =>
        /\ \A i \in DOMAIN last.res.steps :
              last.res.steps[i] = "claims" =>
                  /\ \E j \in 1..(i - 1) : last.res.steps[j] = "verify"
                  /\ SigOK(last.tok)
        /\ "SignatureInvalid" \in last.res.err.flags =>
              last.res.err.flags \cap {"Expired", "NotValidYet"} = {}

\* C2: a valid token from GenerateToken with any single bit of its signature segment
\* flipped is rejected by ValidateToken as SignatureInvalid, never accepted.
C2_BitFlipRejected ==
    (/\ last.op = "validate"
     /\ last.kind = "bitflip"
     /\ ValidateToken(held.tok, last.at).ok) =>
        /\ ~last.res.ok
        /\ "SignatureInvalid" \in last.res.err.flags

\* C3: validating a token this manager issued, before its expires-at, succeeds and
\* yields the claims GenerateToken built, equal in every field.
C3_RoundTrip ==
    (/\ last.op = "validate"
     /\ last.kind = "issued"
     /\ held.skew = 0
     /\ held.claims.ExpiresAt > last.at) =>
        /\ last.res.ok
        /\ last.res.claims = held.claims

C3_Witness ==
    /\ last.op = "validate"
    /\ last.kind = "issued"
    /\ held.skew = 0
    /\ held.ttl = 1
    /\ held.at % TicksPerSec = TicksPerSec - 1
    /\ last.at = held.at
    /\ last.res.ok
    /\ last.res.claims = held.claims

\* C4: a token issued with a negative ttl, and any correctly signed token evaluated
\* after its expires-at, is rejected as Expired and yields no claims.
C4_ExpiredRejected ==
    (/\ last.op = "validate"
     /\ SigOK(last.tok)
     /\ \/ last.at > UnmarshalClaims(last.tok.payload).ExpiresAt
        \/ (last.kind = "issued" /\ held.ttl < 0)) =>
        /\ ~last.res.ok
        /\ "Expired" \in last.res.err.flags
        /\ last.res.claims = NoClaims

C4_Witness ==
    /\ last.op = "validate"
    /\ last.kind = "issued"
    /\ held.ttl < 0
    /\ last.at = held.at
    /\ ~last.res.ok
    /\ last.res.err.flags = {"Expired"}

C6_RefreshPropagates ==
    (last.op = "refresh" /\ ~Parsed.Valid) =>
        /\ ~last.res.ok
        /\ last.res.token = EmptyToken
        /\ last.res.err.flags = Parsed.Errors
        /\ last.res.err.chain = <<"invalid token for refresh", "failed to parse token">>

C6_Witness ==
    /\ last.op = "refresh"
    /\ last.kind = "issued"
    /\ ~last.res.ok
    /\ last.res.err.flags = {"Expired"}

C26_ClaimsOrdered ==
    held.some =>
        /\ held.claims.ExpiresAt > held.claims.IssuedAt
        /\ held.claims.IssuedAt >= held.claims.NotBefore

----------------------------------------------------------------------------
(* Properties of the rate limiter *)

\* the tokens a call made now would find, before it consumes one
Available == advance(lim, now)

\* C8: the token count of the limiter, stored and as available now, is never below 0
\* and never above the burst size.
C8_TokensBounded ==
    /\ 0 <= lim.tokens /\ lim.tokens <= lim.burst * TicksPerSec
    /\ 0 <= Available /\ Available <= lim.burst * TicksPerSec
    /\ \A p \in Reqs : reqs[p].pc = "advanced" =>
          (0 <= reqs[p].tokens /\ reqs[p].tokens <= lim.burst * TicksPerSec)

\* C8 witness: time has passed, calls were admitted and refused, and the bucket has
\* refilled to its burst size
C8_Witness ==
    /\ \E i \in DOMAIN log : log[i].ok
    /\ \E i \in DOMAIN log : ~log[i].ok
    /\ now > lim.last
    /\ lim.last > ZeroTime
    /\ Available = lim.burst * TicksPerSec

\* the admitted calls that read the clock at a or later (all have returned by now)
AdmittedSince(a) == Cardinality({i \in DOMAIN log : log[i].ok /\ log[i].t >= a})

\* C9: Allow() checks and consumes under lim.mu as one unit, and so the calls admitted
\* in any interval [a, now] are at most burst + (now - a) * limit.
C9_AtomicAdmission ==
    /\ \A p \in Reqs : reqs[p].pc \in {"locked", "advanced"} <=> mu = p
    /\ \A a \in 0..now :
          AdmittedSince(a) * TicksPerSec <= lim.burst * TicksPerSec + (now - a) * lim.limit

\* the calls i..j of the log were made at the same instant t
AllAt(i, j, t) == \A k \in i..j : log[k].t = t

\* C10: of the calls on a new limiter with burst B and limit R, made one after another:
\* B calls at one instant succeed and the next at that instant fails; the call made
\* 1/R seconds later succeeds and the call after it at that instant fails.
C10_BurstThenRefill ==
    LET B == lim.burst
        R == lim.limit
    IN  /\ (Len(log) >= B + 1 /\ AllAt(1, B + 1, log[1].t)) =>
              /\ \A k \in 1..B : log[k].ok
              /\ ~log[B + 1].ok
        /\ (/\ Len(log) >= B + 3
            /\ AllAt(1, B + 1, log[1].t)
            /\ (log[B + 2].t - log[1].t) * R = TicksPerSec
            /\ log[B + 3].t = log[B + 2].t) =>
              /\ log[B + 2].ok
              /\ ~log[B + 3].ok

\* C10 witness: the spec's case, burst 2 and 2 per second, the fourth and fifth call
\* 500ms after the first three
C10_Witness ==
    /\ lim.burst = 2 /\ lim.limit = 2
    /\ Len(log) = 5
    /\ AllAt(1, 3, 0)
    /\ AllAt(4, 5, TicksPerSec \div 2)
    /\ log[1].ok /\ log[2].ok /\ ~log[3].ok /\ log[4].ok /\ ~log[5].ok

\* C27: a call that empties the bucket, then any number of refused calls, then a call
\* made 1/R seconds after the one that emptied it: this call is admitted.
C27_RefusalKeepsRefill ==
    \A i, j \in DOMAIN log :
        (/\ i < j
         /\ log[i].ok
         /\ log[i].left = 0
         /\ \A k \in (i + 1) .. (j - 1) : ~log[k].ok
         /\ (log[j].t - log[i].t) * lim.limit = OneToken) => log[j].ok

\* one per second: a call at 0 is admitted and empties the bucket, two calls half a
\* second later are refused, the call at one second is admitted
C27_Witness ==
    /\ lim.limit = 1
    /\ Len(log) >= 4
    /\ log[1].ok /\ log[1].left = 0
    /\ ~log[2].ok /\ log[2].t > log[1].t /\ (log[2].t - log[1].t) * lim.limit < OneToken
    /\ ~log[3].ok /\ log[3].t = log[2].t
    /\ log[4].ok /\ (log[4].t - log[1].t) * lim.limit = OneToken

----------------------------------------------------------------------------
(* Properties of the middleware pipeline *)

Position(stage) == IF \E i \in DOMAIN chain : chain[i] = stage
                   THEN CHOOSE i \in DOMAIN chain : chain[i] = stage ELSE 0

Ran(stage) == \E i \in DOMAIN ctx.ran : ctx.ran[i] = stage

Statuses == {ctx.writes[i].status : i \in DOMAIN ctx.writes}

\* the tokens the bucket held when the request reached the RateLimiter stage
BucketAtArrival == advance(ctx.lim0, ctx.at)

\* a request of the flood: a bearer credential that does not parse, and nothing else
\* that would end it before the two stages
FloodRequest ==
    /\ ctx.active
    /\ ctx.req.fault = "none"
    /\ ctx.req.auth = AuthHeader("Bearer ", EmptyToken)
    /\ 0 < Position("RateLimiter") /\ Position("RateLimiter") < Position("JWTAuth")

\* C11: with RateLimiter before JWTAuth, a request with an invalid bearer token is
\* answered 401 only if the bucket held a token for it; when the bucket is exhausted the
\* request is answered 429 and the JWTAuth handler does not run.
C11_RateLimitBeforeAuth ==
    (FloodRequest /\ Ran("RateLimiter")) =>
        /\ BucketAtArrival < OneToken =>
              /\ ctx.writes = <<[status |-> 429, body |-> "Rate limit exceeded"]>>
              /\ ~Ran("JWTAuth")
              /\ Completed
        /\ 401 \in Statuses => BucketAtArrival >= OneToken
        /\ (BucketAtArrival >= OneToken /\ Completed) => Statuses = {401}

\* C11 witness: the bucket was emptied by earlier requests and this one got 429
C11_Witness ==
    /\ FloodRequest
    /\ Completed
    /\ ctx.lim0.last > ZeroTime
    /\ BucketAtArrival < OneToken
    /\ Statuses = {429}

\* C12: while a request without a fault is in the chain, the handlers that ran are a
\* prefix of the chain in order; each of them went on to the next or aborted with one
\* response, after an abort nothing further ran, and the completed request has exactly
\* one response.
C12_ContinueOrAbort ==
    (ctx.active /\ ctx.req.fault = "none") =>
        /\ Len(ctx.ran) <= Len(chain)
        /\ ctx.ran = SubSeq(chain, 1, Len(ctx.ran))
        /\ \/ /\ ctx.index = Len(ctx.ran) + 1
              /\ Len(ctx.writes) = (IF Ran("handler") THEN 1 ELSE 0)
           \/ /\ ctx.index = abortIndex
              /\ Len(ctx.writes) = 1
              /\ ~Ran("handler")
        /\ Completed => Len(ctx.writes) = 1

\* C12 witness: RequestSize aborted the request after the stages before it continued
C12_Witness ==
    /\ Completed
    /\ ctx.req.fault = "none"
    /\ ctx.index = abortIndex
    /\ Len(ctx.ran) > 1
    /\ ctx.ran[Len(ctx.ran)] = "RequestSize"
    /\ Statuses = {413}

\* the Authorization header is exactly "Bearer <token>" and the token validates
BearerValid ==
    /\ ctx.req.auth.present
    /\ ctx.req.auth.scheme = "Bearer "
    /\ Parse(ctx.req.auth.tok, secretKey, ctx.at, parserOrder).Valid

AuthBodies ==
    {"Authorization header required", "Invalid authorization format", "Invalid token"}

C14_FaultContained ==
    (Completed /\ ctx.faulted) =>
        /\ ctx.caught = 1
        /\ ~ctx.escaped
        /\ Len(ctx.writes) = 1
        /\ ctx.writes[1].status = 500

\* the stage has run and the chain went on with the handler after it
Continued(stage) ==
    LET next == chain[Position(stage) + 1]
    IN  Ran(stage) /\ (Ran(next) \/ Current = next)

\* C28: SecurityHeaders sets its headers and goes on with the next handler for every
\* request; CORS sets its headers and goes on for every method but OPTIONS, writing
\* nothing; for OPTIONS it answers 204 and ends the chain: neither JWTAuth nor the
\* route's handler, nor any handler after CORS, runs.
C28_OnlyPreflightAborts ==
    (ctx.active /\ ctx.req.fault = "none") =>
        /\ Ran("SecurityHeaders") =>
              /\ SecurityHeadersSet \subseteq ctx.hdrs
              /\ Continued("SecurityHeaders")
        /\ (Ran("CORS") /\ ctx.req.method # "OPTIONS") =>
              /\ CORSHeaders \subseteq ctx.hdrs
              /\ Continued("CORS")
              /\ ~Ran("RequestID") => ctx.writes = <<>>
        /\ (Ran("CORS") /\ ctx.req.method = "OPTIONS") =>
              /\ CORSHeaders \subseteq ctx.hdrs
              /\ ctx.writes = <<[status |-> 204, body |-> ""]>>
              /\ ctx.index = abortIndex
              /\ ctx.ran[Len(ctx.ran)] = "CORS"
              /\ ~Ran("JWTAuth") /\ ~Ran("handler")

\* an OPTIONS request with a valid bearer token was answered 204 by CORS
C28_Witness ==
    /\ Completed
    /\ ctx.req.fault = "none"
    /\ ctx.req.method = "OPTIONS"
    /\ BearerValid
    /\ Ran("SecurityHeaders") /\ Ran("CORS")
    /\ Statuses = {204}
    /\ ~Ran("JWTAuth")

\* a GET went through both stages and on to the route's handler
C28_WitnessGet ==
    /\ Completed
    /\ ctx.req.method = "GET"
    /\ Ran("CORS") /\ Ran("handler")
    /\ (SecurityHeadersSet \cup CORSHeaders) \subseteq ctx.hdrs

\* C30: for a request with a "Bearer <token>" header that JWTAuth has handled: the
\* request was admitted if and only if ValidateToken accepts the token at that time
\* with the same secret, and then the user id, username and email in the context are
\* those of the claims ValidateToken returns.
C30_AuthAgreesWithValidate ==
    (/\ ctx.active /\ ctx.req.fault = "none"
     /\ Ran("JWTAuth")
     /\ ctx.req.auth.present /\ HasBearerPrefix(ctx.req.auth)) =>
        LET v == ValidateToken(ctx.req.auth.tok, ctx.at)
        IN  /\ (401 \notin Statuses) <=> v.ok
            /\ v.ok => GetUserFromContext(ctx) =
                          [userID |-> v.claims.UserID, username |-> v.claims.Username,
                           email |-> v.claims.Email, exists |-> TRUE]

----------------------------------------------------------------------------
(* Properties of the deadline scope and of RedisClient *)

\* C15: a Get made for a request does not go on waiting for the store once the
\* request's deadline has passed or the request was cancelled.
C15_DeadlineObserved ==
    (rcall.op = "Get" /\ rcall.pc = "waiting") =>
        /\ now <= rcall.reqDeadline
        /\ rcall.cancelAt < 0 \/ now <= rcall.cancelAt

\* a CacheWithCallback call has just returned
Cached == rcall.op = "CacheWithCallback" /\ rcall.pc = "returned"

\* the entry the call found under its key
Found == rcall.before[rcall.key]

\* the entry a successful callback leaves under the key
Written ==
    [present |-> TRUE, data |-> Encode(rcall.cb.value).data, n |-> 0,
     expireAt |-> rcall.at + rcall.expiration]

\* C16: CacheWithCallback calls the callback at most once; when the key is in the
\* store (a hit) it returns the cached value without calling the callback; when the key
\* is absent it calls the callback once, stores the result with the expiration and
\* returns it.
C16_HitOrComputeOnce ==
    Cached =>
        /\ rcall.calls <= 1
        /\ (rcall.getUp /\ Live(Found, rcall.at)) =>
              /\ rcall.calls = 0
              /\ rcall.ok
              /\ Encode(rcall.value).data = Found.data
              /\ store = rcall.before
        /\ (rcall.getUp /\ ~Live(Found, rcall.at)) =>
              /\ rcall.calls = 1
              /\ (rcall.cb.ok /\ rcall.setUp /\ Encode(rcall.cb.value).ok) =>
                    /\ rcall.ok
                    /\ rcall.value = rcall.cb.value
                    /\ store[rcall.key] = Written

\* C17: when the callback fails, CacheWithCallback returns its error and the store is
\* as it was: nothing is written, and an entry under the key keeps value and expiry.
C17_ComputeFailure ==
    (Cached /\ rcall.calls = 1 /\ ~rcall.cb.ok) =>
        /\ ~rcall.ok
        /\ rcall.err = rcall.cb.err
        /\ store = rcall.before

\* C17 witness: the callback failed while an entry was under the key
C17_Witness ==
    /\ Cached
    /\ rcall.calls = 1
    /\ ~rcall.cb.ok
    /\ Live(Found, rcall.at)
    /\ rcall.err = "callback failed"

\* the write of the computed value fails: json.Marshal refuses it or the store is down
WriteFails == ~Encode(rcall.cb.value).ok \/ ~rcall.setUp

\* C18: when the callback succeeds and the write to the store fails, CacheWithCallback
\* still returns the computed value without an error; the store is unchanged.
C18_WriteFailure ==
    (Cached /\ rcall.calls = 1 /\ rcall.cb.ok /\ WriteFails) =>
        /\ rcall.ok
        /\ rcall.err = ""
        /\ rcall.value = rcall.cb.value
        /\ store = rcall.before

\* C18 witness: the store was down for the SET of a computed struct
C18_Witness ==
    /\ Cached
    /\ rcall.calls = 1
    /\ rcall.cb.ok
    /\ rcall.cb.value.type = "object"
    /\ ~rcall.setUp
    /\ rcall.value = rcall.cb.value

\* C19: with the store up and a callback that succeeds, for every value: a call that
\* finds no entry, or one whose expiration has elapsed, calls the callback and caches
\* the result under the expiration; a call made before the expiration of the cached
\* entry has elapsed does not call the callback.
C19_CacheAside ==
    (Cached /\ rcall.getUp /\ rcall.setUp /\ rcall.cb.ok /\ Encode(rcall.cb.value).ok) =>
        IF Found.present /\ rcall.at < Found.expireAt
        THEN /\ rcall.calls = 0
             /\ store = rcall.before
        ELSE /\ rcall.calls = 1
             /\ rcall.value = rcall.cb.value
             /\ store[rcall.key] = Written

\* C20: a counter key that exists in the store has an expiry.
C20_CounterHasExpiry ==
    \A key \in CounterKeys : Live(store[key], now) => store[key].expireAt # NoExpiry

----------------------------------------------------------------------------
(* Properties of IncrementCounter *)

\* no call is in progress
Quiet == \A p \in Callers : pipes[p].pc = "idle"

\* the calls that returned were made on one fresh key before it expired, and the store
\* answered each of them: one INCR created the key, the others found it
OneWindow ==
    /\ Len(counts) > 0
    /\ \A i \in 1 .. Len(counts) : counts[i].ok
    /\ Cardinality({i \in 1 .. Len(counts) : counts[i].fresh}) = 1

\* each call was made after the calls before it had returned
OneAfterAnother == \A i \in 1 .. Len(counts) : counts[i].began = counts[i].call - 1

\* C21: n calls of IncrementCounter on a fresh key, made before the key expires and
\* answered by the store, return n different values that are exactly 1..n, also when the
\* calls overlap; made one after another, the i-th call returns i.
C21_CountsInOrder ==
    (Quiet /\ OneWindow) =>
        /\ \A i, j \in 1 .. Len(counts) : i # j => counts[i].n # counts[j].n
        /\ {counts[i].n : i \in 1 .. Len(counts)} = 1 .. Len(counts)
        /\ OneAfterAnother => \A i \in 1 .. Len(counts) : counts[i].n = i

\* three calls have returned, two of them overlapped, and the call that returned first
\* did not get the first count
C21_Witness ==
    /\ Quiet
    /\ OneWindow
    /\ Len(counts) = MaxCount + 1
    /\ ~OneAfterAnother
    /\ counts[1].n = 2

\* calls made one after another have returned 1, 2, 3
C21_WitnessInOrder ==
    /\ Quiet
    /\ OneWindow
    /\ OneAfterAnother
    /\ Len(counts) = MaxCount + 1
    /\ now > 0

----------------------------------------------------------------------------
(* Properties of the update of a user *)

\* the request has been answered, and a statement was built for it
Built == upd.pc = "answered" /\ upd.res.query # NoStatement

\* the columns the SET clause of the statement names
SetColumns == {upd.res.query.set[i].column : i \in DOMAIN upd.res.query.set}

\* the fields of the body that reach the map of updates, in the order range walked them
Effective == DOMAIN Updates(Decode(upd.body))
UsedOrder ==
    IF Built THEN SubSeq([i \in DOMAIN upd.res.query.set |-> upd.res.query.set[i].column],
                         1, Len(upd.res.query.set) - 1)
    ELSE CHOOSE o \in Orders(Effective) : TRUE

\* the body without the fields that are not fields of UpdateUserRequest
AllowListed == [f \in BodyFields |-> IF f \in RequestFields THEN upd.body[f] ELSE Absent]

\* the columns of the row of the request whose cells the request changed
Touched == {f \in Columns : upd.id \in UserIds /\ db[upd.id][f] # upd.before[upd.id][f]}

\* C22: whatever the body of the request carries, the SET clause names only fields of
\* UpdateUserRequest (the allow-list) and updated_at, never id, and only those cells of
\* the row change; a field outside the allow-list changes nothing of the answer: the
\* request is answered as the same request without it.  From full_name and role, only
\* full_name and updated_at are set.
C22_OnlyAllowListed ==
    upd.pc = "answered" =>
        /\ SetColumns \subseteq RequestFields \cup {"updated_at"}
        /\ "id" \notin SetColumns
        /\ Touched \subseteq SetColumns
        /\ upd.res = UserHandler_UpdateUser(upd.before, upd.id, AllowListed, UsedOrder, upd.at)
        /\ (Built /\ upd.body.role # Absent /\ Effective = {"full_name"})
               => SetColumns = {"full_name", "updated_at"}

\* full_name and role sent for user 1: the row has the new name, the answer is 200
C22_Witness ==
    /\ Built
    /\ upd.id = 1
    /\ upd.body.role = "admin"
    /\ upd.body.full_name = "Ann"
    /\ Effective = {"full_name"}
    /\ upd.res.status = 200
    /\ db[1]["full_name"] = Str("Ann")
    /\ Touched = {"full_name", "updated_at"}

\* C23: a request none of whose fields reaches the map of updates is answered with
\* "no fields to update", no statement is sent, and the table, updated_at of the row
\* included, is as it was.
C23_NoFieldsToUpdate ==
    (upd.pc = "answered" /\ Effective = {}) =>
        /\ upd.res.err = "no fields to update"
        /\ ~upd.res.sent
        /\ upd.res.query = NoStatement
        /\ db = upd.before

\* a body with an empty full_name and a role, sent after the clock has moved
C23_Witness ==
    /\ upd.pc = "answered"
    /\ Effective = {}
    /\ upd.body.full_name = ""
    /\ upd.body.role = "admin"
    /\ upd.id = 1
    /\ upd.at > db[1]["updated_at"].i
    /\ upd.res.err = "no fields to update"

\* C24: a statement that is built sets updated_at in exactly one SET part, and the
\* argument of that part is the instant the builder read, whatever the body carries.
C24_TimestampOnce ==
    Built =>
        LET q == upd.res.query
            parts == {i \in DOMAIN q.set : q.set[i].column = "updated_at"}
        IN  /\ Cardinality(parts) = 1
            /\ \A i \in parts : q.args[q.set[i].index] = Instant(upd.at)
            /\ upd.res.err = "" => db[upd.id]["updated_at"] = Instant(upd.at)

\* the body carried an updated_at of its own, the row has the instant of the request
C24_Witness ==
    /\ Built
    /\ upd.body.updated_at = "1999"
    /\ upd.res.err = ""
    /\ upd.at > 0
    /\ db[upd.id]["updated_at"] = Instant(upd.at)

\* the numbers of the placeholders of a text, in the order they stand in it
Placeholders(text) ==
    LET ph == SelectSeq(text, LAMBDA w : w.kind = "placeholder")
    IN  [i \in DOMAIN ph |-> ph[i].n]

\* the values the body carries
CallerValues == {upd.body[f] : f \in BodyFields} \ {Absent}

\* C25: in a statement built for n fields, the text holds the placeholders $1..$n+2 in
\* this order and no value of the body; argument i is the value of the i-th SET part,
\* argument n+1 the instant, argument n+2 the id of the row, bound to the placeholder of
\* WHERE; the columns of the text are fields of UpdateUserRequest or updated_at.
C25_Parameterized ==
    Built =>
        LET q == upd.res.query
            n == Len(q.set) - 1
            text == Text(q)
        IN  /\ n = Cardinality(Effective)
            /\ Placeholders(text) = [i \in 1 .. n + 2 |-> i]
            /\ Len(q.args) = n + 2
            /\ \A i \in 1 .. n : /\ q.set[i].index = i
                                 /\ q.args[i] = Str(upd.body[q.set[i].column])
            /\ q.set[n + 1] = [column |-> "updated_at", index |-> n + 1]
            /\ q.args[n + 1] = Instant(upd.at)
            /\ q.where = n + 2
            /\ q.args[n + 2] = Id(upd.id)
            /\ \A i \in DOMAIN text : text[i].kind = "word" =>
                  /\ text[i].w \notin CallerValues
                  /\ text[i].w \in RequestFields \cup
                                   {"updated_at", "UPDATE users SET", "=", ",", "WHERE id ="}

\* a statement for all four fields, sent with a role besides
C25_Witness ==
    /\ Built
    /\ Effective = RequestFields
    /\ upd.body.role = "admin"
    /\ upd.res.err = ""
    /\ Len(upd.res.query.args) = Cardinality(RequestFields) + 2

----------------------------------------------------------------------------
(* Properties of Transaction *)

\* C29: a Transaction call that has begun a transaction and is through has ended it
\* exactly once: by a commit if and only if fn returned nil and did not panic, else by
\* a rollback, and a panic of fn reaches the caller after the rollback; the call
\* returns nil only if the commit succeeded.
C29_TransactionEndsOnce ==
    (tx.pc = "done" /\ tx.began = 1) =>
        /\ tx.commits + tx.rollbacks = 1
        /\ conn.open = 0
        /\ tx.commits = 1 <=> (tx.p = nil /\ tx.step > Len(tx.fn))
        /\ tx.p # nil => (tx.rollbacks = 1 /\ tx.raised)
        /\ (~tx.raised /\ tx.result = nil) => tx.committed

====
